---- MODULE Spec2Model ----
(***************************************************************************)
(* Device-tree overlay / transaction engine of drivers/of:                 *)
(*   dynamic.c      node refcounts, notifier chain, attach/detach          *)
(*   util.c         __of_free_tree, property copier, node builder          *)
(*   overlay.c      overlay walk, journal, device ledger, registry         *)
(*   transaction.c  transaction journal, apply / revert                    *)
(* The property primitives and the lookups of drivers/of/base.c and the    *)
(* kobject reference counting of lib/kobject.c are not part of the         *)
(* sources at hand; they are modelled from the written specification and   *)
(* are marked as such where they are defined.                              *)
(***************************************************************************)
EXTENDS Integers, Sequences, FiniteSets, TLC

VARIABLES
    node,               \* struct device_node, by node id
    prop,               \* struct property, by property id
    of_allnodes,        \* the global allnext chain, head first
    of_reconfig_chain,  \* registered notifier blocks, in registration order
    ov_list,            \* registry list (ids, oldest first)
    ov_idr,             \* id -> struct of_overlay
    ov_lock,            \* owner of ov_lock (0: free)
    of_mutex,           \* owner of of_mutex (0: free)
    events,             \* notifications dispatched by the last call
    invoked,            \* the callbacks each of these notifications reached
    last,               \* the last API call and what it returned
    ub,                 \* undefined behaviour has happened (use after free)
    calls,              \* number of API calls that allocate journal memory
    hist,               \* "create" / "destroy": so far overlays were created,
                        \* then destroyed newest first; "off" otherwise
    thr,                \* per-thread position (concurrent specifications)
    oft                 \* struct of_transaction objects

vars == <<node, prop, of_allnodes, of_reconfig_chain, ov_list, ov_idr,
          ov_lock, of_mutex, events, invoked, last, ub, calls, hist, thr,
          oft>>

-----------------------------------------------------------------------------
(* Bounds of the model *)

MaxNode == 6
MaxProp == 12
MaxCalls == 2
MaxChain == 1

NULL == 0
Nodes == 1..MaxNode
Props == 1..MaxProp

-----------------------------------------------------------------------------
(* Sequence helpers *)

Range(s) == {s[i] : i \in 1..Len(s)}

RECURSIVE SeqRemove(_, _)
SeqRemove(s, x) ==
    IF s = <<>> THEN <<>>
    ELSE IF Head(s) = x THEN Tail(s)
    ELSE <<Head(s)>> \o SeqRemove(Tail(s), x)

RECURSIVE IndexOf(_, _)
IndexOf(s, x) ==
    IF s = <<>> THEN 0
    ELSE IF Head(s) = x THEN 1
    ELSE IF IndexOf(Tail(s), x) = 0 THEN 0 ELSE 1 + IndexOf(Tail(s), x)

InsertAfter(s, p, x) ==
    LET i == IndexOf(s, p)
    IN SubSeq(s, 1, i) \o <<x>> \o SubSeq(s, i + 1, Len(s))

Reverse(s) == [i \in 1..Len(s) |-> s[Len(s) + 1 - i]]

-----------------------------------------------------------------------------
(* The scenario tree                                                       *)
(*   / : [], /root : {status="okay", compatible="v1"},                     *)
(*   /root/a : {compatible="x"}                                            *)

NoNode ==
    [name |-> "", full_name |-> <<>>, parent |-> NULL,
     properties |-> <<>>, deadprops |-> <<>>, child |-> <<>>,
     detached |-> FALSE, dynamic |-> FALSE, refs |-> 0, sysfs |-> FALSE,
     mem |-> "none"]

NoProp == [name |-> "", value |-> "", dynamic |-> FALSE, mem |-> "none"]

N_SLASH == 1
N_ROOT == 2
N_A == 3

InitNode ==
    [n \in Nodes |->
        IF n = N_SLASH THEN
            [NoNode EXCEPT !.child = <<N_ROOT>>, !.refs = 2, !.sysfs = TRUE,
                           !.mem = "ok"]
        ELSE IF n = N_ROOT THEN
            [NoNode EXCEPT !.name = "root", !.full_name = <<"root">>,
                           !.parent = N_SLASH, !.properties = <<1, 2>>,
                           !.child = <<N_A>>, !.refs = 2, !.sysfs = TRUE,
                           !.mem = "ok"]
        ELSE IF n = N_A THEN
            [NoNode EXCEPT !.name = "a", !.full_name = <<"root", "a">>,
                           !.parent = N_ROOT, !.properties = <<3>>,
                           !.refs = 1, !.sysfs = TRUE, !.mem = "ok"]
        ELSE NoNode]

InitProp ==
    [p \in Props |->
        IF p = 1 THEN [NoProp EXCEPT !.name = "status", !.value = "okay",
                                     !.mem = "ok"]
        ELSE IF p = 2 THEN [NoProp EXCEPT !.name = "compatible",
                                          !.value = "v1", !.mem = "ok"]
        ELSE IF p = 3 THEN [NoProp EXCEPT !.name = "compatible",
                                          !.value = "x", !.mem = "ok"]
        ELSE NoProp]

-----------------------------------------------------------------------------
(* The working state of one call.  The operators below are the C functions *)
(* as state transformers: each takes the working state k and returns the   *)
(* state after the call, the C return value in k.ret.                      *)
(*   nalloc  allocations attempted so far in this call                     *)
(*   failAt  the allocation of this call that fails (0: none)              *)
(*   uaf     what freed memory holds when it is used again                 *)
(*   full    the model's pool of node / property ids is used up            *)
(*   tab     the of_overlay_info array the call works on                   *)
(*   ptr     the pointer a call returns                                    *)

Work(failAt, uaf) ==
    [node |-> node, prop |-> prop, all |-> of_allnodes,
     chain |-> of_reconfig_chain, events |-> <<>>, seen |-> <<>>,
     ub |-> ub,
     nalloc |-> 0, failAt |-> failAt, uaf |-> uaf, full |-> FALSE,
     tab |-> <<>>, ptr |-> NULL, ret |-> "OK"]

Ret(k, r) == [k EXCEPT !.ret = r]

\* kzalloc / kmalloc / kstrdup / kasprintf: k.ret = "ENOMEM" when it fails
Alloc(k) ==
    LET n == k.nalloc + 1
    IN [k EXCEPT !.nalloc = n,
                 !.ret = IF n = k.failAt THEN "ENOMEM" ELSE "OK"]

Freed(k, np) == k.node[np].mem = "freed"

\* an access to a node: undefined when its memory has been freed
Touch(k, np) == IF Freed(k, np) THEN [k EXCEPT !.ub = TRUE] ELSE k

-----------------------------------------------------------------------------
(* Notifier chain (dynamic.c)                                              *)

Callbacks == {"veto_attach_c", "veto_detach_node", "veto_remove_property"}

\* what a registered callback answers to an event
CallbackVetoes(cb, k, action, np) ==
    \/ cb = "veto_attach_c" /\ action = "ATTACH_NODE"
                            /\ k.node[np].full_name = <<"root", "c">>
    \/ cb = "veto_detach_node" /\ action = "DETACH_NODE"
    \/ cb = "veto_remove_property" /\ action = "REMOVE_PROPERTY"

\* the error a callback returns for an event ("OK": none)
CallbackAnswer(cb, k, action, np) ==
    IF CallbackVetoes(cb, k, action, np) THEN "VETO"
    ELSE IF cb = "busy_detach_node" /\ action = "DETACH_NODE" THEN "EBUSY"
    ELSE "OK"

\* the result of a dispatch: the first error a callback has returned
RECURSIVE notifier_call_chain(_, _, _, _)
notifier_call_chain(chain, k, action, np) ==
    IF chain = <<>> THEN "OK"
    ELSE LET rest == notifier_call_chain(Tail(chain), k, action, np)
         IN IF CallbackAnswer(Head(chain), k, action, np) # "OK"
            THEN CallbackAnswer(Head(chain), k, action, np)
            ELSE rest

\* a walk that ends at the first callback that returns an error
RECURSIVE notifier_calls_until_error(_, _, _, _)
notifier_calls_until_error(chain, k, action, np) ==
    IF chain = <<>> THEN <<>>
    ELSE IF CallbackAnswer(Head(chain), k, action, np) # "OK"
    THEN <<Head(chain)>>
    ELSE <<Head(chain)>>
             \o notifier_calls_until_error(Tail(chain), k, action, np)

\* the callbacks a dispatch invokes, in the order of the calls
RECURSIVE notifier_calls(_, _, _, _)
notifier_calls(chain, k, action, np) ==
    IF chain = <<>> THEN <<>>
    ELSE <<Head(chain)>> \o notifier_calls(Tail(chain), k, action, np)

of_reconfig_notify(k, action, np, pp) ==
    LET rc == notifier_call_chain(k.chain, k, action, np)
    IN [k EXCEPT !.events = Append(@, [kind |-> action, np |-> np,
                                      prop |-> pp]),
                 !.seen = Append(@, notifier_calls(k.chain, k, action, np)),
                 !.ret = rc]

of_node_is_attached(k, np) == k.node[np].sysfs

of_property_notify(k, action, np, pp) ==
    IF ~of_node_is_attached(k, np) THEN Ret(k, "OK")
    ELSE of_reconfig_notify(k, action, np, pp)

-----------------------------------------------------------------------------
(* Reference counts (dynamic.c; kobject_get / kobject_put of lib/kobject.c)*)

FreeProps(pr, ps) ==
    [p \in Props |-> IF p \in Range(ps) THEN [pr[p] EXCEPT !.mem = "freed"]
                     ELSE pr[p]]

\* kobject_del: leave sysfs and drop the reference held on the parent
RECURSIVE kobject_put(_, _)
kobject_del(k, np) ==
    LET par == k.node[np].parent
        k1 == [k EXCEPT !.node[np].sysfs = FALSE]
    IN IF ~k.node[np].sysfs THEN k
       ELSE IF par = NULL THEN k1
       ELSE kobject_put(k1, par)

\* a release that frees whatever reaches it, attached or not
ReleaseMemory_attached_too(k, np) ==
    [k EXCEPT !.prop = FreeProps(FreeProps(@, k.node[np].properties),
                                 k.node[np].deadprops),
              !.node[np].mem = "freed"]

\* of_node_release after the kobject has left sysfs: a node that is still
\* attached, or the head of the all-nodes chain, is kept
ReleaseMemory(k, np) ==
    LET n == k.node[np]
    IN IF ~n.detached THEN k
       ELSE IF k.all # <<>> /\ np = Head(k.all) THEN k
       ELSE [k EXCEPT
               !.prop = FreeProps(FreeProps(@, n.properties), n.deadprops),
               !.node[np] =
                   IF k.uaf = "scrubbed"
                   THEN [@ EXCEPT !.properties = <<>>, !.deadprops = <<>>,
                                  !.child = <<>>, !.mem = "freed"]
                   ELSE [@ EXCEPT !.mem = "freed"]]

of_node_release(k, np) == ReleaseMemory(kobject_del(k, np), np)

kobject_put(k, np) ==
    IF Freed(k, np) \/ k.node[np].refs <= 0 THEN [k EXCEPT !.ub = TRUE]
    ELSE LET k1 == [k EXCEPT !.node[np].refs = @ - 1]
         IN IF k1.node[np].refs = 0 THEN of_node_release(k1, np) ELSE k1

of_node_get(k, np) ==
    IF np = NULL THEN k
    ELSE IF Freed(k, np) THEN [k EXCEPT !.ub = TRUE]
    ELSE [k EXCEPT !.node[np].refs = @ + 1]

of_node_put(k, np) == IF np = NULL THEN k ELSE kobject_put(k, np)

\* of_node_add (base.c): kobject_add under the parent's kobject
of_node_add(k, np) ==
    LET par == k.node[np].parent
        k1 == [k EXCEPT !.node[np].sysfs = TRUE]
    IN IF k.node[np].sysfs \/ par = NULL THEN k1
       ELSE [k1 EXCEPT !.node[par].refs = @ + 1]

of_node_remove(k, np) ==
    LET k1 == IF of_node_is_attached(k, np) THEN kobject_del(k, np) ELSE k
    IN of_node_put(k1, np)

-----------------------------------------------------------------------------
(* Lookups (base.c)                                                        *)

RECURSIVE FindByName(_, _, _)
FindByName(pr, ps, name) ==
    IF ps = <<>> THEN NULL
    ELSE IF pr[Head(ps)].name = name THEN Head(ps)
    ELSE FindByName(pr, Tail(ps), name)

\* of_find_property: the first live property of that name, or NULL
of_find_property(k, np, name) ==
    FindByName(k.prop, k.node[np].properties, name)

RECURSIVE ChildByName(_, _, _)
ChildByName(nd, cs, name) ==
    IF cs = <<>> THEN NULL
    ELSE IF nd[Head(cs)].name = name THEN Head(cs)
    ELSE ChildByName(nd, Tail(cs), name)

\* of_get_child_by_name without the reference it takes
FindChild(k, np, name) == ChildByName(k.node, k.node[np].child, name)

IsOkay(v) == v = "okay" \/ v = "ok"

\* of_device_is_available: status missing, or "okay" / "ok"
of_device_is_available(k, np) ==
    LET s == of_find_property(k, np, "status")
    IN s = NULL \/ IsOkay(k.prop[s].value)

RECURSIVE NodeByPath(_, _, _)
NodeByPath(nd, all, path) ==
    IF all = <<>> THEN NULL
    ELSE IF nd[Head(all)].full_name = path THEN Head(all)
    ELSE NodeByPath(nd, Tail(all), path)

\* of_find_node_by_path without the reference it takes
FindNodeByPath(k, path) == NodeByPath(k.node, k.all, path)

-----------------------------------------------------------------------------
(* Attach / detach (dynamic.c)                                             *)

__of_attach_node(k, np) ==
    LET par == k.node[np].parent
        k1 == Touch(k, np)
    IN [k1 EXCEPT
          !.node[par].child = <<np>> \o @,
          !.all = IF par \in Range(@) THEN InsertAfter(@, par, np) ELSE @,
          !.node[np].detached = FALSE]

\* of_attach_node once the notifier chain has answered in k.ret
AttachNotified(k, np) ==
    IF k.ret # "OK" THEN k
    ELSE Ret(of_node_add(__of_attach_node(k, np), np), "OK")

of_attach_node(k, np) ==
    AttachNotified(of_reconfig_notify(Touch(k, np), "ATTACH_NODE", np, NULL),
                   np)

__of_detach_node(k, np) ==
    LET par == k.node[np].parent
        k1 == Touch(k, np)
    IN IF k.node[np].detached THEN k1
       ELSE IF par = NULL THEN k1
       ELSE IF np \notin Range(k.all) \/ np \notin Range(k.node[par].child)
            THEN [k1 EXCEPT !.ub = TRUE]
       ELSE [k1 EXCEPT !.all = SeqRemove(@, np),
                       !.node[par].child = SeqRemove(@, np),
                       !.node[np].detached = TRUE]

\* of_detach_node once the notifier chain has answered in k.ret
DetachNotified(k, np) ==
    IF k.ret # "OK" THEN k
    ELSE Ret(of_node_remove(__of_detach_node(k, np), np), "OK")

of_detach_node(k, np) ==
    DetachNotified(of_reconfig_notify(Touch(k, np), "DETACH_NODE", np, NULL),
                   np)

-----------------------------------------------------------------------------
(* Property primitives (base.c)                                            *)

\* link at the head of the live list; the name must not be live already
\* a property has one next pointer: linking it into a list while it is
\* still chained on another one corrupts both
Chained(k, np, pp) ==
    pp \in Range(k.node[np].properties) \cup Range(k.node[np].deadprops)

\* a primitive that links the property without looking the name up
__of_add_property_unchecked(k, np, pp) ==
    IF Chained(k, np, pp) THEN [k EXCEPT !.ub = TRUE, !.ret = "OK"]
    ELSE Ret([k EXCEPT !.node[np].properties = <<pp>> \o @], "OK")

__of_add_property(k, np, pp) ==
    IF of_find_property(k, np, k.prop[pp].name) # NULL THEN Ret(k, "EEXIST")
    ELSE IF Chained(k, np, pp)
    THEN [k EXCEPT !.node[np].properties = <<pp>> \o @, !.ub = TRUE,
                   !.ret = "OK"]
    ELSE Ret([k EXCEPT !.node[np].properties = <<pp>> \o @], "OK")

\* unlink from the live list and push onto the dead-property list
__of_remove_property(k, np, pp) ==
    IF pp \notin Range(k.node[np].properties) THEN Ret(k, "ENODEV")
    ELSE Ret([k EXCEPT !.node[np].properties = SeqRemove(@, pp),
                       !.node[np].deadprops = <<pp>> \o @], "OK")

\* swap the live property of the same name for newprop, in place; the
\* displaced property goes onto the dead-property list
__of_update_property(k, np, newprop) ==
    LET old == of_find_property(k, np, k.prop[newprop].name)
        i == IndexOf(k.node[np].properties, old)
    IN IF old = NULL THEN Ret(k, "ENODEV")
       ELSE IF old # newprop /\ Chained(k, np, newprop)
       THEN [k EXCEPT !.ub = TRUE, !.ret = "OK"]
       ELSE Ret([k EXCEPT !.node[np].properties = [@ EXCEPT ![i] = newprop],
                          !.node[np].deadprops = <<old>> \o @], "OK")

\* the second half of of_add_property / of_remove_property /
\* of_update_property: the notifier chain has answered in k.ret
PropertyNotified(k, action, np, pp) ==
    IF k.ret # "OK" THEN k
    ELSE CASE action = "ADD_PROPERTY" -> __of_add_property(k, np, pp)
           [] action = "REMOVE_PROPERTY" -> __of_remove_property(k, np, pp)
           [] action = "UPDATE_PROPERTY" -> __of_update_property(k, np, pp)

of_add_property(k, np, pp) ==
    PropertyNotified(of_property_notify(k, "ADD_PROPERTY", np, pp),
                     "ADD_PROPERTY", np, pp)

of_remove_property(k, np, pp) ==
    PropertyNotified(of_property_notify(k, "REMOVE_PROPERTY", np, pp),
                     "REMOVE_PROPERTY", np, pp)

of_update_property(k, np, newprop) ==
    IF of_find_property(k, np, k.prop[newprop].name) = NULL
    THEN of_add_property(k, np, newprop)
    ELSE PropertyNotified(
             of_property_notify(k, "UPDATE_PROPERTY", np, newprop),
             "UPDATE_PROPERTY", np, newprop)

-----------------------------------------------------------------------------
(* Builders and tree free (util.c)                                         *)

FreeIds(f) == {x \in DOMAIN f : f[x].mem = "none"}
Min(S) == CHOOSE x \in S : \A y \in S : x <= y

\* __of_copy_property: a dynamic copy of (name, value); k.ptr = NULL on ENOMEM
CopyInto(k, free, name, value) ==
    IF k.ret # "OK" THEN [k EXCEPT !.ptr = NULL]
    ELSE IF free = {} THEN [k EXCEPT !.full = TRUE, !.ptr = NULL]
    ELSE [k EXCEPT !.prop[Min(free)] = [name |-> name, value |-> value,
                                        dynamic |-> TRUE, mem |-> "ok"],
                   !.ptr = Min(free)]

__of_copy_property(k, name, value) ==
    CopyInto(Alloc(k), FreeIds(k.prop), name, value)

\* a builder whose node does not have OF_DETACHED set
CreateInto_attached(k, free, name, full_name) ==
    IF k.ret # "OK" THEN [k EXCEPT !.ptr = NULL]
    ELSE IF free = {} THEN [k EXCEPT !.full = TRUE, !.ptr = NULL]
    ELSE [k EXCEPT !.node[Min(free)] =
                       [NoNode EXCEPT !.name = name,
                                      !.full_name = full_name,
                                      !.dynamic = TRUE,
                                      !.refs = 1, !.mem = "ok"],
                   !.ptr = Min(free)]

\* __of_create_empty_node: a dynamic, detached node with refcount 1
CreateInto(k, free, name, full_name) ==
    IF k.ret # "OK" THEN [k EXCEPT !.ptr = NULL]
    ELSE IF free = {} THEN [k EXCEPT !.full = TRUE, !.ptr = NULL]
    ELSE [k EXCEPT !.node[Min(free)] =
                       [NoNode EXCEPT !.name = name,
                                      !.full_name = full_name,
                                      !.detached = TRUE, !.dynamic = TRUE,
                                      !.refs = 1, !.mem = "ok"],
                   !.ptr = Min(free)]

__of_create_empty_node(k, name, full_name) ==
    CreateInto(Alloc(k), FreeIds(k.node), name, full_name)

\* __of_free_property: only dynamic properties are released
FreeDynProps(k, ps) ==
    [p \in Props |-> IF p \in Range(ps) /\ k.prop[p].dynamic
                     THEN [k.prop[p] EXCEPT !.mem = "freed"]
                     ELSE k.prop[p]]

RECURSIVE __of_free_tree(_, _)
RECURSIVE FreeChildren(_, _)
FreeChildren(k, cs) ==
    IF cs = <<>> THEN k
    ELSE FreeChildren(__of_free_tree(k, Head(cs)), Tail(cs))

\* the node is unlinked neither from its parent's child list nor from the
\* all-nodes chain
\* the node itself, once its children are gone
FreeNode(k, np) ==
    LET n == k.node[np]
    IN [k EXCEPT
          !.prop = FreeDynProps([k EXCEPT !.prop = FreeDynProps(k,
                                                      n.properties)],
                                n.deadprops),
          !.node[np].properties = <<>>,
          !.node[np].deadprops = <<>>,
          !.node[np].mem = IF n.dynamic THEN "freed" ELSE @]

__of_free_tree(k, np) ==
    IF np = NULL THEN k
    ELSE FreeNode(FreeChildren([k EXCEPT !.node[np].child = <<>>],
                               k.node[np].child), np)

-----------------------------------------------------------------------------
(* Overlay trees handed to the engine.  A fragment is a detached subtree:  *)
(* props in list order, then children in list order; dash marks a name     *)
(* that starts with '-', name is the rest of it.                           *)

P(name, value) == [dash |-> FALSE, name |-> name, value |-> value]
RemoveP(name) == [dash |-> TRUE, name |-> name, value |-> ""]
Child(name, frag) == [dash |-> FALSE, name |-> name, frag |-> frag]
RemoveChild(name) == [dash |-> TRUE, name |-> name, frag |-> "empty"]

Fragment(f) ==
    CASE f = "empty" -> [props |-> <<>>, children |-> <<>>]
      [] f = "extra" -> [props |-> <<P("extra", "hello")>>,
                         children |-> <<>>]
      [] f = "-compatible" -> [props |-> <<RemoveP("compatible")>>,
                               children |-> <<>>]
      [] f = "extra,-compatible" ->
             [props |-> <<P("extra", "hello"), RemoveP("compatible")>>,
              children |-> <<>>]
      [] f = "-missing" -> [props |-> <<RemoveP("missing")>>,
                            children |-> <<>>]
      [] f = "disabled" -> [props |-> <<P("status", "disabled")>>,
                            children |-> <<>>]
      [] f = "okay" -> [props |-> <<P("status", "okay")>>,
                        children |-> <<>>]
      [] f = "b-body" -> [props |-> <<P("name", "b"), P("compatible", "y"),
                                      P("status", "okay")>>,
                          children |-> <<>>]
      [] f = "b" -> [props |-> <<>>, children |-> <<Child("b", "b-body")>>]
      [] f = "c" -> [props |-> <<>>, children |-> <<Child("c", "empty")>>]
      [] f = "-a" -> [props |-> <<>>, children |-> <<RemoveChild("a")>>]
      [] f = "a" -> [props |-> <<>>, children |-> <<Child("a", "disabled")>>]
      [] f = "d" -> [props |-> <<>>, children |-> <<Child("d", "b")>>]

\* an overlay tree: its target / __overlay__ pairs, in child order
Pair(path, frag) == [path |-> path, frag |-> frag]

OverlayTree(o) ==
    CASE o = "S1" -> <<Pair(<<"root">>, "extra")>>
      [] o = "S2" -> <<Pair(<<"root">>, "-compatible")>>
      [] o = "S3" -> <<Pair(<<"root">>, "b")>>
      [] o = "S4" -> <<Pair(<<"root">>, "c")>>
      [] o = "A" -> <<Pair(<<"root", "a">>, "disabled")>>
      [] o = "B" -> <<Pair(<<"root", "a">>, "okay")>>
      [] o = "DetachA" -> <<Pair(<<"root">>, "-a")>>
      [] o = "Mixed" -> <<Pair(<<"root">>, "extra,-compatible")>>
      [] o = "Missing" -> <<Pair(<<"root">>, "-missing")>>
      [] o = "IntoA" -> <<Pair(<<"root">>, "a")>>
      [] o = "Two" -> <<Pair(<<"root">>, "extra"),
                        Pair(<<"root", "a">>, "disabled")>>
      [] o = "NoTarget" -> <<Pair(<<"nowhere">>, "extra")>>
      [] o = "Both" -> <<Pair(<<"root", "a">>, "okay"),
                         Pair(<<"root">>, "extra,-compatible")>>
      [] o = "Nested" -> <<Pair(<<"root">>, "d")>>
      [] o = "Three" -> <<Pair(<<"root">>, "extra"),
                          Pair(<<"root", "a">>, "disabled"),
                          Pair(<<"root">>, "-compatible")>>

Overlays == {"S1", "S2", "S3", "S4", "A", "B", "DetachA", "Mixed",
             "Missing", "IntoA", "Two", "NoTarget"}

-----------------------------------------------------------------------------
(* Journal and device ledger (overlay.c)                                   *)

NoInfo == [target |-> NULL, overlay |-> "empty", le_list |-> <<>>,
           de_list |-> <<>>]

RECURSIVE DeIndex(_, _)
DeIndex(de_list, np) ==
    IF de_list = <<>> THEN 0
    ELSE IF Head(de_list).np = np THEN 1
    ELSE IF DeIndex(Tail(de_list), np) = 0 THEN 0
    ELSE 1 + DeIndex(Tail(de_list), np)

\* index of the device entry of np in ovinfo i, 0 when there is none
of_overlay_device_entry_lookup(k, i, np) == DeIndex(k.tab[i].de_list, np)

of_overlay_log_entry_entry_add(k, i, action, dn, pp) ==
    LET k1 == Alloc(k)
        old == IF action = "UPDATE_PROPERTY" /\ pp # NULL
               THEN of_find_property(k, dn, k.prop[pp].name) ELSE NULL
        le == [action |-> action, np |-> dn, prop |-> pp, old_prop |-> old]
        k2 == of_node_get(k1, dn)
    IN IF dn = NULL THEN Ret(k, "EINVAL")
       ELSE IF k1.ret # "OK" THEN k1
       ELSE Ret([k2 EXCEPT !.tab[i].le_list = Append(@, le)], "OK")

of_overlay_device_entry_entry_add(k, i, np, prevstate, state) ==
    LET d == of_overlay_device_entry_lookup(k, i, np)
        k1 == Alloc(k)
        k2 == of_node_get(k1, np)
    IN IF d # 0 THEN [k EXCEPT !.tab[i].de_list[d].state = state]
       ELSE IF k1.ret # "OK" THEN k1
       ELSE [k2 EXCEPT !.tab[i].de_list =
                Append(@, [np |-> np, prevstate |-> prevstate,
                           state |-> state])]

\* "has a compatible property and is available"
CompatibleAndAvailable(k, np) ==
    of_find_property(k, np, "compatible") # NULL
        /\ of_device_is_available(k, np)

\* the state the device of np is in once the property change has been made
StateAfter(k, action, np, pp) ==
    LET name == k.prop[pp].name
        removal == action = "REMOVE_PROPERTY"
        cprop == IF name = "status"
                 THEN of_find_property(k, np, "compatible")
                 ELSE IF removal THEN NULL ELSE pp
        sprop == IF name = "status"
                 THEN IF removal THEN NULL ELSE pp
                 ELSE of_find_property(k, np, "status")
    IN /\ cprop # NULL
       /\ k.prop[cprop].value # ""
       /\ \/ sprop = NULL
          \/ k.prop[sprop].value # "" /\ IsOkay(k.prop[sprop].value)

\* of_overlay_tree_change after the log entry has been added (k.ret);
\* prev and state were taken from the tree before the call
LedgerAfterLog(k, i, action, np, name, prev, state) ==
    IF k.ret # "OK" THEN k
    ELSE IF action = "ATTACH_NODE"
         THEN Ret(of_overlay_device_entry_entry_add(k, i, np, FALSE, prev),
                  "OK")
    ELSE IF action = "DETACH_NODE"
         THEN Ret(of_overlay_device_entry_entry_add(k, i, np, prev, FALSE),
                  "OK")
    ELSE IF name # "status" /\ name # "compatible" THEN Ret(k, "OK")
    ELSE Ret(of_overlay_device_entry_entry_add(k, i, np, prev, state), "OK")

of_overlay_tree_change(k, i, action, np, pp) ==
    LedgerAfterLog(of_overlay_log_entry_entry_add(k, i, action, np, pp),
                   i, action, np, k.prop[pp].name,
                   CompatibleAndAvailable(k, np),
                   StateAfter(k, action, np, pp))

-----------------------------------------------------------------------------
(* The overlay walk (overlay.c)                                            *)

\* "ret = of_overlay_tree_change(...); if (ret == 0) ret = of_xxx(...)":
\* the second half, the journal call having answered in k.ret
ChangeLogged(k, action, np, pp) ==
    IF k.ret # "OK" THEN k
    ELSE CASE action = "ADD_PROPERTY" -> of_add_property(k, np, pp)
           [] action = "REMOVE_PROPERTY" -> of_remove_property(k, np, pp)
           [] action = "UPDATE_PROPERTY" -> of_update_property(k, np, pp)
           [] action = "ATTACH_NODE" -> of_attach_node(k, np)
           [] action = "DETACH_NODE" -> of_detach_node(k, np)

LoggedChange(k, i, action, np, pp) ==
    ChangeLogged(of_overlay_tree_change(k, i, action, np, pp),
                 action, np, pp)

\* a walk that takes the removal of a property the target has not for an
\* error
ApplyCopied_missing_fails(k, i, target, fp) ==
    LET propn == k.ptr
        tprop == of_find_property(k, target, fp.name)
        action == IF tprop = NULL THEN "ADD_PROPERTY"
                  ELSE IF propn # NULL THEN "UPDATE_PROPERTY"
                  ELSE "REMOVE_PROPERTY"
    IN IF ~fp.dash /\ propn = NULL THEN Ret(k, "ENOMEM")
       ELSE IF tprop = NULL /\ propn = NULL THEN Ret(k, "EINVAL")
       ELSE LoggedChange(k, i, action, target,
                         IF propn # NULL THEN propn ELSE tprop)

\* a walk that adds its copy whether the target has the name or not
ApplyCopied_add_always(k, i, target, fp) ==
    LET propn == k.ptr
        tprop == of_find_property(k, target, fp.name)
    IN IF ~fp.dash /\ propn = NULL THEN Ret(k, "ENOMEM")
       ELSE IF tprop = NULL /\ propn = NULL THEN Ret(k, "OK")
       ELSE LoggedChange(k, i, IF propn # NULL THEN "ADD_PROPERTY"
                               ELSE "REMOVE_PROPERTY",
                         target, IF propn # NULL THEN propn ELSE tprop)

\* one turn of the property loop, the property copied (k.ptr) or, for a
\* removal, not
ApplyCopied(k, i, target, fp) ==
    LET propn == k.ptr
        tprop == of_find_property(k, target, fp.name)
        action == IF tprop = NULL THEN "ADD_PROPERTY"
                  ELSE IF propn # NULL THEN "UPDATE_PROPERTY"
                  ELSE "REMOVE_PROPERTY"
    IN IF ~fp.dash /\ propn = NULL THEN Ret(k, "ENOMEM")
       ELSE IF tprop = NULL /\ propn = NULL THEN Ret(k, "OK")
       ELSE LoggedChange(k, i, action, target,
                         IF propn # NULL THEN propn ELSE tprop)

\* one turn of the property loop of of_overlay_apply_one
ApplyProperty(k, i, target, fp) ==
    IF fp.name = "name" /\ ~fp.dash THEN Ret(k, "OK")
    ELSE ApplyCopied(IF fp.dash THEN [k EXCEPT !.ptr = NULL]
                     ELSE __of_copy_property(k, fp.name, fp.value),
                     i, target, fp)

RECURSIVE of_overlay_apply_one(_, _, _, _)
RECURSIVE ApplyProperties(_, _, _, _)
RECURSIVE ApplyChildren(_, _, _, _)

PropertiesAfter(k, i, target, fps) ==
    IF k.ret # "OK" THEN k ELSE ApplyProperties(k, i, target, fps)

ApplyProperties(k, i, target, fps) ==
    IF fps = <<>> THEN Ret(k, "OK")
    ELSE PropertiesAfter(ApplyProperty(k, i, target, Head(fps)),
                         i, target, Tail(fps))

\* of_node_put(tchild) after the call whose result is in k.ret
PutChild(k, tchild) == Ret(of_node_put(k, tchild), k.ret)

\* the new child walked: on an error the node is freed, attached as it is
ChildWalked(k, nchild) ==
    IF k.ret # "OK" THEN Ret(__of_free_tree(k, nchild), k.ret) ELSE k

\* the new child logged and attached (k.ret)
ChildAttached(k, i, nchild, f) ==
    IF k.ret # "OK" THEN k
    ELSE ChildWalked(of_overlay_apply_one(k, i, nchild, f), nchild)

\* the new child allocated (k.ptr)
ChildCreated(k, i, target, f) ==
    IF k.ptr = NULL THEN Ret(k, "ENOMEM")
    ELSE ChildAttached(
             LoggedChange([k EXCEPT !.node[k.ptr].parent = target], i,
                          "ATTACH_NODE", k.ptr, NULL),
             i, k.ptr, f)

\* the full name of the new child allocated (k.ret)
ChildNamed(k, i, target, fc) ==
    IF k.ret # "OK" THEN Ret(k, "ENOMEM")
    ELSE ChildCreated(
             __of_create_empty_node(k, fc.name,
                 Append(k.node[target].full_name, fc.name)),
             i, target, fc.frag)

\* a walk that makes a new child whether the target has one of the name
\* or not
ApplyChild_always_new(k, i, target, fc) ==
    IF fc.dash THEN Ret(k, "OK") ELSE ChildNamed(Alloc(k), i, target, fc)

\* one turn of the child loop of of_overlay_apply_one
ApplyChild(k, i, target, fc) ==
    LET tchild == FindChild(k, target, fc.name)
    IN IF tchild # NULL THEN
           IF ~fc.dash
           THEN PutChild(of_overlay_apply_one(of_node_get(k, tchild), i,
                                              tchild, fc.frag), tchild)
           ELSE PutChild(LoggedChange(of_node_get(k, tchild), i,
                                      "DETACH_NODE", tchild, NULL), tchild)
       ELSE IF fc.dash THEN Ret(k, "OK")
       ELSE ChildNamed(Alloc(k), i, target, fc)

ChildrenAfter(k, i, target, fcs) ==
    IF k.ret # "OK" THEN k ELSE ApplyChildren(k, i, target, fcs)

ApplyChildren(k, i, target, fcs) ==
    IF fcs = <<>> THEN Ret(k, "OK")
    ELSE ChildrenAfter(ApplyChild(k, i, target, Head(fcs)),
                       i, target, Tail(fcs))

of_overlay_apply_one(k, i, target, f) ==
    IF target = NULL THEN Ret(k, "EINVAL")
    ELSE ChildrenAfter(ApplyProperties(k, i, target, Fragment(f).props),
                       i, target, Fragment(f).children)

-----------------------------------------------------------------------------
(* Revert, post work, apply (overlay.c)                                    *)

\* a change that notifies the state of the entry on apply and on revert
of_overlay_device_entry_change_same(k, de, revert) ==
    Ret(of_reconfig_notify(k, IF de.state THEN "DYNAMIC_CREATE_DEV"
                              ELSE "DYNAMIC_DESTROY_DEV", de.np, NULL),
        "OK")

of_overlay_device_entry_change(k, de, revert) ==
    LET state == (de.state # revert)
    IN Ret(of_reconfig_notify(k, IF state THEN "DYNAMIC_CREATE_DEV"
                                 ELSE "DYNAMIC_DESTROY_DEV", de.np, NULL),
           "OK")

\* the device entries of ovinfo i, newest first
RECURSIVE RevertDeviceEntries(_, _)
RevertDeviceEntries(k, des) ==
    IF des = <<>> THEN k
    ELSE RevertDeviceEntries(
             of_node_put(of_overlay_device_entry_change(k, des[Len(des)],
                                                        TRUE),
                         des[Len(des)].np),
             SubSeq(des, 1, Len(des) - 1))

\* the inverse operation of a log entry, its node reference dropped already
InverseChange(k, le) ==
    LET np == le.np
        pp == IF le.action = "REMOVE_PROPERTY" THEN le.prop ELSE le.old_prop
        \* remove it from deadprops, when it is there
        undead == [Touch(k, np) EXCEPT !.node[np].deadprops = SeqRemove(@, pp)]
    IN CASE le.action = "ATTACH_NODE" -> of_detach_node(k, np)
         [] le.action = "DETACH_NODE" -> of_attach_node(k, np)
         [] le.action = "ADD_PROPERTY" ->
                of_remove_property(Touch(k, np), np, le.prop)
         [] le.action = "REMOVE_PROPERTY" -> of_add_property(undead, np, pp)
         [] le.action = "UPDATE_PROPERTY" ->
                of_update_property(undead, np, pp)

\* a revert that drops the reference of the entry and leaves the change
\* in the tree
RevertLogEntry_put_only(k, le) == of_node_put(k, le.np)

\* one turn of the log loop of of_overlay_revert_one
RevertLogEntry(k, le) == InverseChange(of_node_put(k, le.np), le)

RECURSIVE RevertLogEntries(_, _)
RevertLogEntries(k, les) ==
    IF les = <<>> THEN k
    ELSE RevertLogEntries(RevertLogEntry(k, les[Len(les)]),
                          SubSeq(les, 1, Len(les) - 1))

of_overlay_revert_one(k, i) ==
    IF k.tab[i].target = NULL THEN k
    ELSE [RevertLogEntries(RevertDeviceEntries(k, k.tab[i].de_list),
                           k.tab[i].le_list)
             EXCEPT !.tab[i].de_list = <<>>, !.tab[i].le_list = <<>>]

\* the success path of of_overlay_post_one: drop the entries without a
\* state change, notify for the others
RECURSIVE PostDeviceEntries(_, _, _)
PostDeviceEntries(k, des, kept) ==
    IF des = <<>> THEN [k |-> k, kept |-> kept]
    ELSE LET de == Head(des)
         IN IF de.prevstate = de.state
            THEN PostDeviceEntries(of_node_put(k, de.np), Tail(des), kept)
            ELSE PostDeviceEntries(
                     of_overlay_device_entry_change(k, de, FALSE),
                     Tail(des), Append(kept, de))

KeepEntries(r, i) == Ret([r.k EXCEPT !.tab[i].de_list = r.kept], "OK")

of_overlay_post_one(k, i, err) ==
    IF err # "OK" THEN Ret(of_overlay_revert_one(k, i), "OK")
    ELSE KeepEntries(PostDeviceEntries(k, k.tab[i].de_list, <<>>), i)

\* an err_fail that leaves the earlier ovinfos as they are
RevertFrom_none(k, i) == k

\* err_fail of of_overlay_apply: revert ovinfo i-1 .. 1
RECURSIVE RevertFrom(_, _)
RevertFrom(k, i) ==
    IF i < 1 THEN k ELSE RevertFrom(of_overlay_revert_one(k, i), i - 1)

RECURSIVE ApplyFrom(_, _)

\* of_overlay_post_one(ovinfo, err), err kept as the result
PairPosted(k, i) == Ret(of_overlay_post_one(k, i, k.ret), k.ret)

\* one turn of the loop of of_overlay_apply: ovinfo i walked and posted
ApplyPair(k, i) ==
    PairPosted(of_overlay_apply_one(k, i, k.tab[i].target,
                                    k.tab[i].overlay), i)

\* "if (err != 0) goto err_fail", else the next ovinfo
PairDone(k, i) ==
    IF k.ret # "OK" THEN Ret(RevertFrom(k, i - 1), k.ret)
    ELSE ApplyFrom(k, i + 1)

ApplyFrom(k, i) ==
    IF i > Len(k.tab) THEN Ret(k, "OK") ELSE PairDone(ApplyPair(k, i), i)

of_overlay_apply(k) == ApplyFrom(k, 1)

of_overlay_revert(k) == Ret(RevertFrom(k, Len(k.tab)), "OK")

-----------------------------------------------------------------------------
(* Overlay info arrays (overlay.c)                                         *)

\* of_fill_overlay_info for every child of the overlay tree; the children
\* whose target does not resolve are left out
RECURSIVE FillInfos(_, _)
FillInfos(k, pairs) ==
    IF pairs = <<>> THEN k
    ELSE LET target == FindNodeByPath(k, Head(pairs).path)
             info == [NoInfo EXCEPT !.target = target,
                                    !.overlay = Head(pairs).frag]
         IN IF target = NULL THEN FillInfos(k, Tail(pairs))
            ELSE FillInfos([of_node_get(k, target)
                               EXCEPT !.tab = Append(@, info)],
                           Tail(pairs))

\* "if (cnt == 0) return -ENODEV" once the array has been filled
InfosFilled(k) == Ret(k, IF k.tab = <<>> THEN "ENODEV" ELSE "OK")

\* the array allocated (k.ret)
InfosAllocated(k, o) ==
    IF k.ret # "OK" THEN k
    ELSE InfosFilled(FillInfos([k EXCEPT !.tab = <<>>], OverlayTree(o)))

of_build_overlay_info(k, o) == InfosAllocated(Alloc(k), o)

RECURSIVE PutTargets(_, _)
PutTargets(k, i) ==
    IF i < 1 THEN k ELSE PutTargets(of_node_put(k, k.tab[i].target), i - 1)

of_free_overlay_info(k) == Ret([PutTargets(k, Len(k.tab)) EXCEPT !.tab = <<>>],
                               "OK")

-----------------------------------------------------------------------------
(* Registry (overlay.c)                                                    *)

\* a check that matches the node only and leaves out the subtree under it
overlay_subtree_check_node_only(nd, tree, dn) == tree = dn

RECURSIVE overlay_subtree_check(_, _, _)
overlay_subtree_check(nd, tree, dn) ==
    \/ tree = dn
    \/ \E c \in Range(nd[tree].child) : overlay_subtree_check(nd, c, dn)

\* the log entries of all ovinfos of overlay ov
AllLogEntries(ov) ==
    UNION {Range(ov.ovinfo_tab[i].le_list) : i \in 1..Len(ov.ovinfo_tab)}

\* the overlays after ov on the list (all of them when ov is not listed)
LaterThan(list, id) ==
    LET p == IndexOf(list, id) IN Range(SubSeq(list, p + 1, Len(list)))

overlay_is_topmost(nd, list, idr, id, dn) ==
    \A t \in LaterThan(list, id) :
        \A le \in AllLogEntries(idr[t]) :
            ~overlay_subtree_check(nd, le.np, dn)

overlay_removal_is_ok(nd, list, idr, id) ==
    \A le \in AllLogEntries(idr[id]) :
        overlay_is_topmost(nd, list, idr, id, le.np)

\* idr_alloc(&ov_idr, ov, 0, 0, ...): the lowest id not in use
idr_alloc(idr) == Min({i \in 0..Cardinality(DOMAIN idr) : i \notin DOMAIN idr})

idr_remove(idr, id) == [i \in DOMAIN idr \ {id} |-> idr[i]]

idr_insert(idr, id, ov) ==
    [i \in DOMAIN idr \cup {id} |-> IF i = id THEN ov ELSE idr[i]]


\* of_overlay_create between mutex_lock and mutex_unlock; the result is the
\* working state with the registry and the id (k.ret = "OK") or the error
CreateFailed(k, list, idr) == [k |-> k, list |-> list, idr |-> idr, id |-> -1]

\* of_overlay_apply has answered in k.ret
CreateApplied(k, list, idr) ==
    LET id == idr_alloc(idr)
        ov == [id |-> id, count |-> Len(k.tab), ovinfo_tab |-> k.tab]
    IN IF k.ret # "OK"
       THEN CreateFailed(Ret(of_free_overlay_info(k), k.ret), list, idr)
       ELSE [k |-> k, list |-> Append(list, id),
             idr |-> idr_insert(idr, id, ov), id |-> id]

\* of_build_overlay_info has answered in k.ret
CreateBuilt(k, list, idr) ==
    IF k.ret # "OK" THEN CreateFailed(k, list, idr)
    ELSE CreateApplied(of_overlay_apply(k), list, idr)

\* the overlay allocated and its id taken (k.ret)
CreateRegistered(k, o, list, idr) ==
    IF k.ret # "OK" THEN CreateFailed(k, list, idr)
    ELSE CreateBuilt(of_build_overlay_info(k, o), list, idr)

\* the second allocation is not made when the first one has failed
AllocNext(k) == IF k.ret # "OK" THEN k ELSE Alloc(k)

of_overlay_create(k, o, list, idr) ==
    CreateRegistered(AllocNext(Alloc(k)), o, list, idr)

\* the removal itself, after the checks of of_overlay_destroy
RemoveOverlay(k, id, list, idr) ==
    [k |-> Ret(of_free_overlay_info(
                   of_overlay_revert([k EXCEPT !.tab = idr[id].ovinfo_tab])),
               "OK"),
     list |-> SeqRemove(list, id),
     idr |-> idr_remove(idr, id)]

\* a destroy that unlinks the overlay before it checks whether it may
of_overlay_destroy_unlink_first(k, id, list, idr) ==
    IF id \notin DOMAIN idr
    THEN [k |-> Ret(k, "ENODEV"), list |-> list, idr |-> idr]
    ELSE IF ~overlay_removal_is_ok(k.node, list, idr, id)
    THEN [k |-> Ret(k, "EBUSY"), list |-> SeqRemove(list, id), idr |-> idr]
    ELSE RemoveOverlay(k, id, list, idr)

of_overlay_destroy(k, id, list, idr) ==
    IF id \notin DOMAIN idr
    THEN [k |-> Ret(k, "ENODEV"), list |-> list, idr |-> idr]
    ELSE IF ~overlay_removal_is_ok(k.node, list, idr, id)
    THEN [k |-> Ret(k, "EBUSY"), list |-> list, idr |-> idr]
    ELSE RemoveOverlay(k, id, list, idr)

RECURSIVE of_overlay_destroy_all_oldest_first(_, _, _)
DestroyRestOldestFirst(r) ==
    of_overlay_destroy_all_oldest_first(r.k, r.list, r.idr)

\* a removal of all overlays that starts at the head of the list
of_overlay_destroy_all_oldest_first(k, list, idr) ==
    IF list = <<>> THEN [k |-> Ret(k, "OK"), list |-> list, idr |-> idr]
    ELSE DestroyRestOldestFirst(RemoveOverlay(k, list[1], list, idr))

RECURSIVE of_overlay_destroy_all(_, _, _)
DestroyRest(r) == of_overlay_destroy_all(r.k, r.list, r.idr)

of_overlay_destroy_all(k, list, idr) ==
    IF list = <<>> THEN [k |-> Ret(k, "OK"), list |-> list, idr |-> idr]
    ELSE DestroyRest(RemoveOverlay(k, list[Len(list)], list, idr))

-----------------------------------------------------------------------------
(* The calls of the overlay API, one action each                           *)

Commit(k) ==
    /\ node' = k.node
    /\ prop' = k.prop
    /\ of_allnodes' = k.all
    /\ events' = k.events
    /\ invoked' = k.seen
    /\ ub' = k.ub

Called(op, o, id, ret) == [op |-> op, o |-> o, id |-> id, ret |-> ret]

\* allocation failures a call may meet, and what freed memory may hold
MaxFail == 6
FailPoints == 0..MaxFail
Reuse == {"intact", "scrubbed"}

Create(o, failAt, uaf) ==
    /\ ~ub
    /\ calls < MaxCalls
    /\ ov_lock = 0
    /\ \E r \in {of_overlay_create(Work(failAt, uaf), o, ov_list, ov_idr)} :
       /\ ~r.k.full
       /\ Commit(r.k)
       /\ ov_list' = r.list
       /\ ov_idr' = r.idr
       /\ last' = Called("create", o, r.id, r.k.ret)
       /\ calls' = calls + 1
       /\ hist' = IF hist = "create" /\ r.k.ret = "OK" THEN "create" ELSE "off"
       /\ UNCHANGED <<of_reconfig_chain, ov_lock, of_mutex, thr, oft>>

Destroy(id, uaf) ==
    /\ ~ub
    /\ ov_lock = 0
    /\ \E r \in {of_overlay_destroy(Work(0, uaf), id, ov_list, ov_idr)} :
       /\ Commit(r.k)
       /\ ov_list' = r.list
       /\ ov_idr' = r.idr
       /\ last' = Called("destroy", "", id, r.k.ret)
       /\ hist' = IF hist \in {"create", "destroy"} /\ ov_list # <<>>
                     /\ id = ov_list[Len(ov_list)]
                  THEN "destroy" ELSE "off"
       /\ UNCHANGED <<of_reconfig_chain, ov_lock, of_mutex, calls, thr, oft>>

DestroyAll(uaf) ==
    /\ ~ub
    /\ ov_lock = 0
    /\ ov_list # <<>>
    /\ \E r \in {of_overlay_destroy_all(Work(0, uaf), ov_list, ov_idr)} :
       /\ Commit(r.k)
       /\ ov_list' = r.list
       /\ ov_idr' = r.idr
       /\ last' = Called("destroy_all", "", -1, r.k.ret)
       /\ hist' = "off"
       /\ UNCHANGED <<of_reconfig_chain, ov_lock, of_mutex, calls, thr, oft>>

\* of_reconfig_notifier_register / of_reconfig_notifier_unregister
Register(cb) ==
    /\ ~ub
    /\ Len(of_reconfig_chain) < MaxChain
    /\ cb \notin Range(of_reconfig_chain)
    /\ of_reconfig_chain' = Append(of_reconfig_chain, cb)
    /\ last' = Called("register", cb, -1, "OK")
    /\ events' = <<>>
    /\ invoked' = <<>>
    /\ hist' = "off"
    /\ UNCHANGED <<node, prop, of_allnodes, ov_list, ov_idr, ov_lock,
                   of_mutex, ub, calls, thr, oft>>

Unregister(cb) ==
    /\ ~ub
    /\ cb \in Range(of_reconfig_chain)
    /\ of_reconfig_chain' = SeqRemove(of_reconfig_chain, cb)
    /\ last' = Called("unregister", cb, -1, "OK")
    /\ events' = <<>>
    /\ invoked' = <<>>
    /\ hist' = "off"
    /\ UNCHANGED <<node, prop, of_allnodes, ov_list, ov_idr, ov_lock,
                   of_mutex, ub, calls, thr, oft>>

\* the threads of the concurrent specifications
Threads == {1, 2}
IdleThread == [pc |-> "idle", via |-> "", o |-> "", tab |-> <<>>, i |-> 0]

Init ==
    /\ node = InitNode
    /\ prop = InitProp
    /\ of_allnodes = <<N_SLASH, N_ROOT, N_A>>
    /\ of_reconfig_chain = <<>>
    /\ ov_list = <<>>
    /\ ov_idr = <<>>
    /\ ov_lock = 0
    /\ of_mutex = 0
    /\ events = <<>>
    /\ invoked = <<>>
    /\ last = Called("init", "", -1, "OK")
    /\ ub = FALSE
    /\ calls = 0
    /\ hist = "create"
    /\ thr = [t \in Threads |-> IdleThread]
    /\ oft = [phase |-> "idle", te_list |-> <<>>]

MaxId == 2

Next ==
    \/ \E o \in Overlays, f \in FailPoints, u \in Reuse : Create(o, f, u)
    \/ \E id \in 0..MaxId, u \in Reuse : Destroy(id, u)
    \/ \E u \in Reuse : DestroyAll(u)
    \/ \E cb \in Callbacks : Register(cb)
    \/ \E cb \in Callbacks : Unregister(cb)

Spec == Init /\ [][Next]_vars

\* ------------------------------------------------------------------
\* Views of the state the properties below compare
\* ------------------------------------------------------------------

RECURSIVE Subtree(_, _)
\* the nodes linked under n through the child lists
Subtree(nd, n) ==
    {n} \cup UNION {Subtree(nd, nd[n].child[i]) : i \in 1..Len(nd[n].child)}

PropList(pr, ps) == [i \in 1..Len(ps) |-> <<pr[ps[i]].name, pr[ps[i]].value>>]

\* the live tree: every linked node with its live properties and its
\* children, both in list order
LiveTree(nd, pr) ==
    {[full_name |-> nd[n].full_name,
      properties |-> PropList(pr, nd[n].properties),
      child |-> [i \in 1..Len(nd[n].child) |-> nd[nd[n].child[i]].name]]
     : n \in Subtree(nd, N_SLASH)}

\* the live tree with the dead-property lists
FullTree(nd, pr) ==
    {[full_name |-> nd[n].full_name,
      properties |-> PropList(pr, nd[n].properties),
      deadprops |-> PropList(pr, nd[n].deadprops),
      child |-> [i \in 1..Len(nd[n].child) |-> nd[nd[n].child[i]].name]]
     : n \in Subtree(nd, N_SLASH)}

\* the live tree up to the order of properties and children
LooseTree(nd, pr) ==
    {[full_name |-> nd[n].full_name,
      properties |-> Range(PropList(pr, nd[n].properties)),
      child |-> {nd[c].name : c \in Range(nd[n].child)}]
     : n \in Subtree(nd, N_SLASH)}

\* ------------------------------------------------------------------
\* C1. A call of of_overlay_apply that fails (allocation failure,
\* notifier veto, or an error of a primitive) leaves the live tree
\* exactly as it was before the call, and the memory of the tree sound.
\* ------------------------------------------------------------------
C1_FailedApplyRestoresTree ==
    [][(last'.op = "create" /\ last'.ret \notin {"OK", "ENODEV"})
        => (~ub' /\ LiveTree(node', prop') = LiveTree(node, prop))]_vars

\* ------------------------------------------------------------------
\* The registry on its own: overlays stacked and removed, no allocation
\* failure and no notifier
\* ------------------------------------------------------------------
StackOverlays == {"S1", "S3", "A", "B", "IntoA", "Two", "DetachA"}

NextStack ==
    \/ \E o \in StackOverlays, u \in Reuse : Create(o, 0, u)
    \/ \E id \in 0..MaxId, u \in Reuse : Destroy(id, u)
    \/ \E u \in Reuse : DestroyAll(u)

SpecStack == Init /\ [][NextStack]_vars

\* the value of the live property "status" of node n, "" when it has none
StatusOf(nd, pr, n) ==
    LET p == FindByName(pr, nd[n].properties, "status")
    IN IF p = NULL THEN "" ELSE pr[p].value

\* the nodes the journal of overlay ov mentions
Mentions(ov) == {le.np : le \in AllLogEntries(ov)}

\* the position of overlay id on the registry list
PosOf(id) == IndexOf(ov_list, id)

\* ------------------------------------------------------------------
\* C3. Overlays created in order with of_overlay_create and then
\* destroyed in reverse order with of_overlay_destroy: every destroy
\* succeeds, and once the registry is empty the live tree is the initial
\* tree (compared up to the order of properties and children).
\* ------------------------------------------------------------------
C3_ReverseDestroyRestores ==
    [][(last'.op = "destroy" /\ hist' = "destroy")
        => /\ last'.ret = "OK"
           /\ ~ub'
           /\ ov_list' = <<>>
                => LooseTree(node', prop') = LooseTree(InitNode, InitProp)]_vars

\* ------------------------------------------------------------------
\* C4. A failing of_overlay_destroy changes no state: it returns ENODEV
\* exactly when the id is unknown and EBUSY otherwise, and the tree, the
\* registry order, the journals and the set of allocated ids stay as
\* they were.
\* ------------------------------------------------------------------
C4_FailedDestroyChangesNothing ==
    [][(last'.op = "destroy" /\ last'.ret # "OK")
        => /\ last'.ret = IF last'.id \in DOMAIN ov_idr THEN "EBUSY"
                          ELSE "ENODEV"
           /\ UNCHANGED <<node, prop, of_allnodes, ov_list, ov_idr, ub>>]_vars

\* a destroy was refused as busy with two overlays registered
C4_Witness ==
    /\ last.op = "destroy"
    /\ last.ret = "EBUSY"
    /\ Len(ov_list) = 2
    /\ DOMAIN ov_idr = {0, 1}

\* ------------------------------------------------------------------
\* C5 (as stated). of_overlay_destroy of a registered overlay succeeds
\* if and only if no later registry entry's journal mentions a node that
\* this overlay's journal also mentions.
\* ------------------------------------------------------------------
SameNodeClash(id) ==
    \E q \in PosOf(id) + 1 .. Len(ov_list) :
        Mentions(ov_idr[id]) \cap Mentions(ov_idr[ov_list[q]]) # {}

C5_SameNodeOnly ==
    [][(last'.op = "destroy" /\ last'.id \in DOMAIN ov_idr)
        => (last'.ret = "OK" <=> ~SameNodeClash(last'.id))]_vars

\* ------------------------------------------------------------------
\* C5 (amended). of_overlay_destroy of a registered overlay succeeds if
\* and only if no later registry entry's journal mentions a node that
\* is, or whose linked subtree holds, a node this overlay's journal
\* mentions: a later overlay on an ancestor blocks the removal, one on
\* a descendant only does not.
\* ------------------------------------------------------------------
SubtreeClash(id) ==
    \E q \in PosOf(id) + 1 .. Len(ov_list) :
        \E t \in Mentions(ov_idr[ov_list[q]]) :
            Mentions(ov_idr[id]) \cap Subtree(node, t) # {}

C5_SubtreeClash ==
    [][(last'.op = "destroy" /\ last'.id \in DOMAIN ov_idr)
        => (last'.ret = "OK" <=> ~SubtreeClash(last'.id))]_vars

\* a destroy was refused although the later overlay shares no node with it
C5_Witness ==
    /\ last.op = "destroy"
    /\ last.ret = "EBUSY"
    /\ last.id \in DOMAIN ov_idr
    /\ ~SameNodeClash(last.id)
    /\ SubtreeClash(last.id)

\* ------------------------------------------------------------------
\* C6. With a notifier that vetoes the attach of /root/c registered,
\* creating an overlay that attaches /root/c returns the veto, leaves no
\* node at /root/c and the live tree as it was, and dispatches no
\* DYNAMIC_CREATE_DEV notification, neither in the attempt nor in its
\* rollback.
\* ------------------------------------------------------------------
PathC == <<"root", "c">>

C6_VetoedAttachLeavesNoTrace ==
    [][(/\ last'.op = "create"
        /\ last'.o = "S4"
        /\ last'.ret # "ENOMEM"
        /\ "veto_attach_c" \in Range(of_reconfig_chain)
        /\ NodeByPath(node, of_allnodes, PathC) = NULL)
        => /\ last'.ret = "VETO"
           /\ ~ub'
           /\ NodeByPath(node', of_allnodes', PathC) = NULL
           /\ LiveTree(node', prop') = LiveTree(node, prop)
           /\ \A i \in 1..Len(events') :
                  events'[i].kind # "DYNAMIC_CREATE_DEV"]_vars

\* ------------------------------------------------------------------
\* The stacking scenario: overlay A adds status = "disabled" to /root/a,
\* overlay B on top of it updates the status to "okay"
\* ------------------------------------------------------------------
IsOverlayOnA(id, frag) ==
    /\ id \in DOMAIN ov_idr
    /\ ov_idr[id].count = 1
    /\ ov_idr[id].ovinfo_tab[1].target = N_A
    /\ ov_idr[id].ovinfo_tab[1].overlay = frag

AddedStatus(id) ==
    LET les == ov_idr[id].ovinfo_tab[1].le_list
    IN Len(les) = 1 /\ les[1].action = "ADD_PROPERTY"

S5_BothApplied ==
    /\ hist = "create"
    /\ calls = 2
    /\ ov_list = <<0, 1>>
    /\ IsOverlayOnA(0, "disabled")
    /\ AddedStatus(0)
    /\ IsOverlayOnA(1, "okay")

\* B was the second of two overlays and is reverted: its "okay" is dead
S5_OnlyALeft ==
    /\ hist = "destroy"
    /\ calls = 2
    /\ ov_list = <<0>>
    /\ IsOverlayOnA(0, "disabled")
    /\ AddedStatus(0)
    /\ last = Called("destroy", "", 1, "OK")
    /\ \E p \in Range(node[N_A].deadprops) :
           prop[p].name = "status" /\ prop[p].value = "okay"

DestroyCalled(id) == last'.op = "destroy" /\ last'.id = id

S5_FirstSteps ==
    /\ (S5_BothApplied /\ DestroyCalled(0)) => last'.ret = "EBUSY"
    /\ (S5_BothApplied /\ DestroyCalled(1))
        => /\ last'.ret = "OK"
           /\ ~ub'
           /\ StatusOf(node', prop', N_A) = "disabled"

\* ------------------------------------------------------------------
\* C7 (as stated). With A then B applied on the scenario tree, destroy(A)
\* is refused as busy, destroy(B) succeeds and leaves status "disabled",
\* and the following destroy(A) succeeds and leaves status "okay".
\* ------------------------------------------------------------------
C7_LastDestroyLeavesOkay ==
    [][/\ S5_FirstSteps
       /\ (S5_OnlyALeft /\ DestroyCalled(0))
           => /\ last'.ret = "OK"
              /\ StatusOf(node', prop', N_A) = "okay"]_vars

\* ------------------------------------------------------------------
\* C7 (amended). With A then B applied on the scenario tree, destroy(A)
\* is refused as busy, destroy(B) succeeds and leaves status "disabled",
\* and the following destroy(A) succeeds and leaves /root/a without a
\* status property, as it was in the scenario tree.
\* ------------------------------------------------------------------
C7_LastDestroyRemovesStatus ==
    [][/\ S5_FirstSteps
       /\ (S5_OnlyALeft /\ DestroyCalled(0))
           => /\ last'.ret = "OK"
              /\ ~ub'
              /\ StatusOf(node', prop', N_A) = ""]_vars

\* both overlays are gone again, B's and A's properties are dead
C7_Witness ==
    /\ last = Called("destroy", "", 0, "OK")
    /\ ov_list = <<>>
    /\ StatusOf(node, prop, N_A) = ""
    /\ PropList(prop, node[N_A].deadprops)
           = <<<<"status", "disabled">>, <<"status", "okay">>>>

\* ------------------------------------------------------------------
\* C2. A successful apply of a fragment on the scenario tree followed by
\* of_overlay_revert (here through of_overlay_destroy of the only
\* overlay) yields the exact original tree: the same node graph, every
\* live property list in the same order, and the dead-property lists as
\* they were.
\* ------------------------------------------------------------------
C2_ApplyRevertRoundTrip ==
    [][(/\ hist = "create"
        /\ last.op = "create"
        /\ Len(ov_list) = 1
        /\ DestroyCalled(ov_list[1]))
        => /\ last'.ret = "OK"
           /\ ~ub'
           /\ FullTree(node', prop') = FullTree(InitNode, InitProp)]_vars

-----------------------------------------------------------------------------
(* Transactions (transaction.c)                                            *)

MaxEntries == 2

PropertyActions == {"ADD_PROPERTY", "REMOVE_PROPERTY", "UPDATE_PROPERTY"}

\* the newest entry of te_list on property `name` of np, 0 when none
RECURSIVE LastEntryOn(_, _, _, _)
LastEntryOn(pr, tes, np, name) ==
    IF tes = <<>> THEN 0
    ELSE LET te == tes[Len(tes)]
         IN IF te.action \in PropertyActions /\ te.np = np
                /\ pr[te.prop].name = name
            THEN Len(tes)
            ELSE LastEntryOn(pr, SubSeq(tes, 1, Len(tes) - 1), np, name)

\* a lookup that takes the newest entry on the property for an add or an
\* update whatever its action is
of_transaction_find_property_no_removal(k, tes, np, name) ==
    LET i == LastEntryOn(k.prop, tes, np, name)
    IN IF i = 0 THEN of_find_property(k, np, name) ELSE tes[i].prop

of_transaction_find_property(k, tes, np, name) ==
    LET i == LastEntryOn(k.prop, tes, np, name)
    IN IF i = 0 THEN of_find_property(k, np, name)
       ELSE IF tes[i].action = "REMOVE_PROPERTY" THEN NULL
       ELSE tes[i].prop

\* k.ptr = 1 with the new entry in k.tab, or k.ret = "ENOMEM"
__of_transaction_entry_create(k, tes, action, dn, pp) ==
    LET k1 == Alloc(k)
        k2 == of_node_get(k1, dn)
        old == IF action = "UPDATE_PROPERTY" /\ pp # NULL
               THEN of_transaction_find_property(k, tes, dn, k.prop[pp].name)
               ELSE NULL
    IN IF k1.ret # "OK" THEN k1
       ELSE [k2 EXCEPT !.tab = <<[action |-> action, np |-> dn, prop |-> pp,
                                  old_prop |-> old]>>]

__of_transaction_entry_destroy(k, te) == of_node_put(k, te.np)

\* -1: no device change; 1: the device is to be created; 0: destroyed
__of_transaction_entry_device_state(k, te, revert) ==
    LET action == IF ~revert THEN te.action
                  ELSE CASE te.action = "ADD_PROPERTY" -> "REMOVE_PROPERTY"
                         [] te.action = "REMOVE_PROPERTY" -> "ADD_PROPERTY"
                         [] te.action = "UPDATE_PROPERTY" -> "UPDATE_PROPERTY"
                         [] te.action = "ATTACH_NODE" -> "DETACH_NODE"
                         [] OTHER -> "ATTACH_NODE"
        pp == IF revert /\ te.action = "UPDATE_PROPERTY" THEN te.old_prop
              ELSE te.prop
        avail == /\ of_device_is_available(k, te.np)
                 /\ of_find_property(k, te.np, "compatible") # NULL
                 /\ of_find_property(k, te.np, "status") # NULL
        curr == IF action = "ATTACH_NODE" THEN FALSE ELSE avail
        target == CASE action \in {"ADD_PROPERTY", "UPDATE_PROPERTY"} ->
                           IsOkay(k.prop[pp].value)
                    [] action = "ATTACH_NODE" -> avail
                    [] OTHER -> FALSE
    IN IF te.action \notin PropertyActions \cup {"ATTACH_NODE"} THEN -1
       ELSE IF te.action \in PropertyActions /\ pp = NULL THEN -1
       ELSE IF te.action \in PropertyActions /\ k.prop[pp].name # "status"
       THEN -1
       ELSE IF curr # target THEN (IF target THEN 1 ELSE 0)
       ELSE -1

\* the hooks of base.c that follow a primitive
__of_attach_node_post(k, np) == of_node_add(k, np)
__of_detach_node_post(k, np) == of_node_remove(k, np)

DeviceNotify(k, state, np) ==
    IF state = -1 THEN k
    ELSE Ret(of_reconfig_notify(k, IF state = 1 THEN "DYNAMIC_CREATE_DEV"
                                   ELSE "DYNAMIC_DESTROY_DEV", np, NULL),
             "OK")

\* the notification an entry sends before its primitive
EntryNotify(k, action, np, pp) ==
    IF action \in PropertyActions THEN of_property_notify(k, action, np, pp)
    ELSE of_reconfig_notify(k, action, np, NULL)

\* the primitive of an entry, under of_mutex and devtree_lock
EntryPrimitive(k, te) ==
    CASE te.action = "ATTACH_NODE" -> Ret(__of_attach_node(k, te.np), "OK")
      [] te.action = "DETACH_NODE" -> Ret(__of_detach_node(k, te.np), "OK")
      [] te.action = "ADD_PROPERTY" -> __of_add_property(k, te.np, te.prop)
      [] te.action = "REMOVE_PROPERTY" ->
             __of_remove_property(k, te.np, te.prop)
      [] OTHER -> __of_update_property(k, te.np, te.prop)

EntryPost(k, te) ==
    CASE te.action = "ATTACH_NODE" -> __of_attach_node_post(k, te.np)
      [] te.action = "DETACH_NODE" -> __of_detach_node_post(k, te.np)
      [] OTHER -> k

\* the primitive has answered in k.ret
ApplyChanged(k, te, state) ==
    IF k.ret # "OK" THEN k
    ELSE Ret(DeviceNotify(EntryPost(k, te), state, te.np), "OK")

\* the notifier chain has answered in k.ret
ApplyNotified(k, te, state) ==
    IF k.ret # "OK" THEN k
    ELSE ApplyChanged(EntryPrimitive(k, te), te, state)

__of_transaction_entry_apply(k, te) ==
    ApplyNotified(EntryNotify(k, te.action, te.np, te.prop), te,
                  __of_transaction_entry_device_state(k, te, FALSE))

\* the notification of the inverse of an entry
InverseNotify(k, te) ==
    CASE te.action = "ATTACH_NODE" ->
             of_reconfig_notify(k, "DETACH_NODE", te.np, NULL)
      [] te.action = "DETACH_NODE" ->
             of_reconfig_notify(k, "ATTACH_NODE", te.np, NULL)
      [] te.action = "ADD_PROPERTY" ->
             of_property_notify(k, "REMOVE_PROPERTY", te.np, te.prop)
      [] te.action = "REMOVE_PROPERTY" ->
             of_property_notify(k, "ADD_PROPERTY", te.np, te.prop)
      [] OTHER ->
             of_property_notify(k, "UPDATE_PROPERTY", te.np, te.old_prop)

\* the inverse primitive of an entry
InversePrimitive(k, te) ==
    LET np == te.np
        dead == IF te.action = "UPDATE_PROPERTY" THEN te.old_prop ELSE te.prop
        kx == [k EXCEPT !.node[np].deadprops = SeqRemove(@, dead)]
    IN CASE te.action = "ATTACH_NODE" -> Ret(__of_detach_node(k, np), "OK")
         [] te.action = "DETACH_NODE" -> Ret(__of_attach_node(k, np), "OK")
         [] te.action = "ADD_PROPERTY" -> __of_remove_property(k, np, te.prop)
         [] te.action = "REMOVE_PROPERTY" -> __of_add_property(kx, np, dead)
         [] OTHER -> __of_update_property(kx, np, dead)

InversePost(k, te) ==
    CASE te.action = "ATTACH_NODE" -> __of_detach_node_post(k, te.np)
      [] te.action = "DETACH_NODE" -> __of_attach_node_post(k, te.np)
      [] OTHER -> k

\* out_revert: take back the device notification
TakeBack(k, state, np) ==
    IF state = -1 THEN k ELSE Ret(DeviceNotify(k, 1 - state, np), k.ret)

\* the inverse primitive has answered in k.ret
RevertChanged(k, te, state) ==
    IF k.ret # "OK" THEN TakeBack(k, state, te.np)
    ELSE Ret(InversePost(k, te), "OK")

\* the notifier chain has answered in k.ret
RevertNotified(k, te, state) ==
    IF k.ret # "OK" THEN TakeBack(k, state, te.np)
    ELSE RevertChanged(InversePrimitive(k, te), te, state)

RevertStated(k, te, state) ==
    RevertNotified(InverseNotify(DeviceNotify(k, state, te.np), te), te,
                   state)

__of_transaction_entry_revert(k, te) ==
    \* prop->name of a NULL old_prop is read in the device-state filter
    IF k.ub \/ (te.action = "UPDATE_PROPERTY" /\ te.old_prop = NULL)
    THEN [k EXCEPT !.ub = TRUE]
    ELSE RevertStated(k, te,
                      __of_transaction_entry_device_state(k, te, TRUE))

\* the rollback of of_transaction_apply: entries i .. 1, results ignored
RECURSIVE RevertEntriesDown(_, _, _)
RevertEntriesDown(k, tes, i) ==
    IF i < 1 THEN k
    ELSE RevertEntriesDown(__of_transaction_entry_revert(k, tes[i]), tes,
                           i - 1)

RECURSIVE ApplyEntriesFrom(_, _, _, _)

\* entry i applied (k.ret)
EntryApplied(k, tes, i, force) ==
    IF k.ret # "OK" /\ ~force
    THEN Ret(RevertEntriesDown(k, tes, i - 1), k.ret)
    ELSE ApplyEntriesFrom(k, tes, i + 1, force)

ApplyEntriesFrom(k, tes, i, force) ==
    IF i > Len(tes) THEN Ret(k, "OK")
    ELSE EntryApplied(__of_transaction_entry_apply(k, tes[i]), tes, i, force)

\* of_transaction_apply after it has dropped of_mutex
of_transaction_apply(k, tes, force) == ApplyEntriesFrom(k, tes, 1, force)

\* re-apply of the entries after i, results ignored
RECURSIVE ReapplyEntriesUp(_, _, _)
ReapplyEntriesUp(k, tes, i) ==
    IF i > Len(tes) THEN k
    ELSE ReapplyEntriesUp(__of_transaction_entry_apply(k, tes[i]), tes, i + 1)

RECURSIVE DestroyEntries(_, _)
DestroyEntries(k, tes) ==
    IF tes = <<>> THEN k
    ELSE DestroyEntries(__of_transaction_entry_destroy(k, tes[Len(tes)]),
                        SubSeq(tes, 1, Len(tes) - 1))

\* k.tab is the entry list the transaction is left with
RECURSIVE RevertEntriesFrom(_, _, _, _)

\* entry i reverted (k.ret)
EntryReverted(k, tes, i, force) ==
    IF k.ret # "OK" /\ ~force
    THEN [Ret(ReapplyEntriesUp(k, tes, i + 1), k.ret) EXCEPT !.tab = tes]
    ELSE RevertEntriesFrom(k, tes, i - 1, force)

RevertEntriesFrom(k, tes, i, force) ==
    IF i < 1 THEN [Ret(DestroyEntries(k, tes), "OK") EXCEPT !.tab = <<>>]
    ELSE EntryReverted(__of_transaction_entry_revert(k, tes[i]), tes, i,
                       force)

\* a revert that walks the entries in the order they were recorded in
of_transaction_revert_forward(k, tes, force) ==
    RevertEntriesFrom(k, Reverse(tes), Len(tes), force)

of_transaction_revert(k, tes, force) ==
    RevertEntriesFrom(k, tes, Len(tes), force)

of_transaction_destroy(k, tes) ==
    [Ret(DestroyEntries(k, tes), "OK") EXCEPT !.tab = <<>>]

\* the entry created (k.ret): it is added to the tail of the list
EntryCreated(k, tes) ==
    [k EXCEPT !.tab = IF k.ret # "OK" THEN tes ELSE tes \o @]

\* the entry recorded (k.ret) and applied at once
AppliedAtOnce(k) ==
    IF k.ret # "OK" THEN k
    ELSE [Ret(__of_transaction_entry_apply(k, k.tab[Len(k.tab)]), "OK")
             EXCEPT !.tab = k.tab]

\* k.tab is the list with the new entry appended
of_transaction_action_eager(k, tes, action, np, pp) ==
    AppliedAtOnce(EntryCreated(
        __of_transaction_entry_create(k, tes, action, np, pp), tes))

\* of_transaction_action: k.tab is the list with the new entry appended
of_transaction_action(k, tes, action, np, pp) ==
    EntryCreated(__of_transaction_entry_create(k, tes, action, np, pp), tes)

-----------------------------------------------------------------------------
(* The calls of the transaction API, one action each                       *)

\* the edits a caller records
Edit(e) ==
    CASE e = "add-k" -> [action |-> "ADD_PROPERTY", path |-> <<"root">>,
                         name |-> "k", value |-> "v"]
      [] e = "add-status" -> [action |-> "ADD_PROPERTY", path |-> <<"root">>,
                              name |-> "status", value |-> "okay"]
      [] e = "rm-compat" -> [action |-> "REMOVE_PROPERTY",
                             path |-> <<"root">>, name |-> "compatible",
                             value |-> ""]
      [] e = "rm-status" -> [action |-> "REMOVE_PROPERTY",
                             path |-> <<"root">>, name |-> "status",
                             value |-> ""]
      [] e = "upd-status" -> [action |-> "UPDATE_PROPERTY",
                              path |-> <<"root">>, name |-> "status",
                              value |-> "disabled"]
      [] e = "upd-missing" -> [action |-> "UPDATE_PROPERTY",
                               path |-> <<"root", "a">>, name |-> "status",
                               value |-> "okay"]
      [] e = "detach-a" -> [action |-> "DETACH_NODE",
                            path |-> <<"root", "a">>, name |-> "",
                            value |-> ""]
      [] e = "attach-b" -> [action |-> "ATTACH_NODE", path |-> <<"root">>,
                            name |-> "b", value |-> ""]
      [] e = "detach-root" -> [action |-> "DETACH_NODE",
                               path |-> <<"root">>, name |-> "",
                               value |-> ""]

Edits == {"add-k", "add-status", "rm-compat", "rm-status", "upd-status",
          "upd-missing", "detach-a", "attach-b"}

\* the node and the property the caller hands to of_transaction_action:
\* k.ptr is the node, k.tab the one-element list with the property
NodeObject(k, at) ==
    IF k.ptr = NULL THEN k
    ELSE [k EXCEPT !.node[k.ptr].parent = at, !.tab = <<NULL>>]

PropertyObject(k, at) ==
    IF k.ptr = NULL THEN k ELSE [k EXCEPT !.ptr = at, !.tab = <<k.ptr>>]

EditAt(k, tes, ed, at) ==
    IF at = NULL THEN [k EXCEPT !.ptr = NULL]
    ELSE CASE ed.action = "ATTACH_NODE" ->
                NodeObject(__of_create_empty_node(k, ed.name,
                               Append(ed.path, ed.name)), at)
           [] ed.action = "DETACH_NODE" ->
                [k EXCEPT !.ptr = at, !.tab = <<NULL>>]
           [] ed.action = "REMOVE_PROPERTY" ->
                [k EXCEPT !.ptr = at,
                          !.tab = <<of_transaction_find_property(
                                        k, tes, at, ed.name)>>]
           [] OTHER ->
                PropertyObject(__of_copy_property(k, ed.name, ed.value), at)

EditObjects(k, tes, e) ==
    EditAt(k, tes, Edit(e), FindNodeByPath(k, Edit(e).path))

MaxTxnFail == 2
MaxTxns == 1

\* of_transaction_init and of_transaction_start
TxnStart ==
    /\ ~ub
    /\ calls < MaxTxns
    /\ oft.phase = "idle"
    /\ of_mutex = 0
    /\ of_mutex' = 1
    /\ oft' = [phase |-> "started", te_list |-> <<>>]
    /\ last' = Called("txn_start", "", -1, "OK")
    /\ events' = <<>>
    /\ invoked' = <<>>
    /\ calls' = calls + 1
    /\ UNCHANGED <<node, prop, of_allnodes, of_reconfig_chain, ov_list,
                   ov_idr, ov_lock, ub, hist, thr>>

\* the caller's objects built (k.ret): the call itself
ActionOn(k, tes, action) ==
    IF k.ret # "OK" THEN k
    ELSE of_transaction_action(k, tes, action, k.ptr, k.tab[1])

TxnAction(e, failAt) ==
    /\ ~ub
    /\ oft.phase = "started"
    /\ Len(oft.te_list) < MaxEntries
    /\ \E kO \in {EditObjects(Work(failAt, "intact"), oft.te_list, e)} :
       /\ ~kO.full
       /\ kO.ret = "OK" => kO.ptr # NULL
       /\ (kO.ret = "OK" /\ Edit(e).action = "REMOVE_PROPERTY")
              => kO.tab[1] # NULL
       /\ \E k \in {ActionOn(kO, oft.te_list, Edit(e).action)} :
          IF k.ret # "OK"
          THEN \* nothing is recorded and the caller drops what it built
               /\ UNCHANGED <<node, prop, of_allnodes, ub, oft>>
               /\ events' = <<>>
               /\ invoked' = <<>>
               /\ last' = Called("txn_action", e, -1, k.ret)
          ELSE /\ Commit(k)
               /\ oft' = [oft EXCEPT !.te_list = k.tab]
               /\ last' = Called("txn_action", e, -1, k.ret)
    /\ UNCHANGED <<of_reconfig_chain, ov_list, ov_idr, ov_lock, of_mutex,
                   calls, hist, thr>>

TxnAbort ==
    /\ ~ub
    /\ oft.phase = "started"
    /\ \E k \in {of_transaction_destroy(Work(0, "intact"), oft.te_list)} :
       /\ of_mutex' = 0
       /\ Commit(k)
       /\ oft' = [phase |-> "idle", te_list |-> k.tab]
       /\ last' = Called("txn_abort", "", -1, "OK")
       /\ UNCHANGED <<of_reconfig_chain, ov_list, ov_idr, ov_lock, calls,
                      hist, thr>>

Force(force) == IF force THEN "force" ELSE ""

TxnApply(force) ==
    /\ ~ub
    /\ oft.phase = "started"
    /\ \E k \in {of_transaction_apply(Work(0, "intact"), oft.te_list, force)} :
       /\ of_mutex' = 0
       /\ Commit(k)
       /\ oft' = [oft EXCEPT !.phase = IF k.ret = "OK" THEN "applied"
                                       ELSE "failed"]
       /\ last' = Called("txn_apply", Force(force), -1, k.ret)
       /\ UNCHANGED <<of_reconfig_chain, ov_list, ov_idr, ov_lock, calls,
                      hist, thr>>

\* a revert that has failed is tried again with force only
TxnRevert(force) ==
    /\ ~ub
    /\ oft.phase = "applied" \/ (oft.phase = "unreverted" /\ force)
    /\ of_mutex = 0
    /\ \E k \in {of_transaction_revert(
                    Work(0, "intact"), oft.te_list, force)} :
       /\ Commit(k)
       /\ oft' = [phase |-> IF k.ret = "OK" THEN "idle" ELSE "unreverted",
                  te_list |-> k.tab]
       /\ last' = Called("txn_revert", Force(force), -1, k.ret)
       /\ UNCHANGED <<of_reconfig_chain, ov_list, ov_idr, ov_lock, of_mutex,
                      calls, hist, thr>>

TxnDestroy ==
    /\ ~ub
    /\ oft.phase \in {"applied", "failed", "unreverted"}
    /\ \E k \in {of_transaction_destroy(Work(0, "intact"), oft.te_list)} :
       /\ Commit(k)
       /\ oft' = [phase |-> "idle", te_list |-> <<>>]
       /\ last' = Called("txn_destroy", "", -1, "OK")
       /\ UNCHANGED <<of_reconfig_chain, ov_list, ov_idr, ov_lock, of_mutex,
                      calls, hist, thr>>

NextTxn ==
    \/ TxnStart
    \/ \E e \in Edits, f \in 0..MaxTxnFail : TxnAction(e, f)
    \/ TxnAbort
    \/ \E force \in BOOLEAN : TxnApply(force)
    \/ \E force \in BOOLEAN : TxnRevert(force)
    \/ TxnDestroy
    \/ \E cb \in Callbacks : Register(cb)
    \/ \E cb \in Callbacks : Unregister(cb)

SpecTxn == Init /\ [][NextTxn]_vars

\* ------------------------------------------------------------------
\* C10. When of_transaction_apply without force fails at an entry, the
\* entries applied before it are undone and the live tree is the tree
\* from before the call (compared up to the order of properties and
\* children).
\* ------------------------------------------------------------------
C10_FailedApplyRestoresTree ==
    [][(last'.op = "txn_apply" /\ last'.o = "" /\ last'.ret # "OK")
        => /\ ~ub'
           /\ LooseTree(node', prop') = LooseTree(node, prop)]_vars

-----------------------------------------------------------------------------
(* Two threads applying overlays.  A thread applies its overlay either     *)
(* through of_overlay_create (overlay.c), which holds ov_lock from before  *)
(* the info array is built until the overlay is on the list, or as         *)
(* overlay_proc_release (proc_devtree.c) does on the close of the overlay  *)
(* file: of_build_overlay_info, then the apply loop, with no lock taken.   *)
(* One step of a thread is one turn of the loop of of_overlay_apply.       *)

ParOverlays == {"Two", "Both"}
Entries == {"create", "proc"}

WorkOn(tab) == [Work(0, "intact") EXCEPT !.tab = tab]

\* of_overlay_create up to the call of of_overlay_apply, or
\* overlay_proc_release up to the call of of_overlay
ParBuild(t, o, via) ==
    /\ ~ub
    /\ thr[t].pc = "idle"
    /\ via = "create" => ov_lock = 0
    /\ \E k \in {of_build_overlay_info(Work(0, "intact"), o)} :
       /\ k.ret = "OK"
       /\ Commit(k)
       /\ thr' = [thr EXCEPT ![t] = [pc |-> "apply", via |-> via, o |-> o,
                                     tab |-> k.tab, i |-> 1]]
    /\ ov_lock' = IF via = "create" THEN t ELSE ov_lock
    /\ last' = Called("build", o, t, "OK")
    /\ hist' = "off"
    /\ UNCHANGED <<of_reconfig_chain, ov_list, ov_idr, of_mutex, calls, oft>>

\* err_fail of of_overlay_apply, then the error path of the caller
ParFailed(k, i) ==
    Ret(of_free_overlay_info(RevertFrom(k, i - 1)), k.ret)

\* one turn of the loop of of_overlay_apply
ParApplyPair(t) ==
    /\ ~ub
    /\ thr[t].pc = "apply"
    /\ thr[t].i <= Len(thr[t].tab)
    /\ \E k \in {ApplyPair(WorkOn(thr[t].tab), thr[t].i)} :
       IF k.ret # "OK"
       THEN \E kf \in {ParFailed(k, thr[t].i)} :
               /\ Commit(kf)
               /\ thr' = [thr EXCEPT ![t].pc = "failed", ![t].tab = <<>>]
               /\ ov_lock' = IF thr[t].via = "create" THEN 0 ELSE ov_lock
               /\ last' = Called("pair", thr[t].o, t, k.ret)
       ELSE /\ Commit(k)
            /\ thr' = [thr EXCEPT ![t].i = @ + 1, ![t].tab = k.tab]
            /\ ov_lock' = ov_lock
            /\ last' = Called("pair", thr[t].o, t, "OK")
    /\ hist' = "off"
    /\ UNCHANGED <<of_reconfig_chain, ov_list, ov_idr, of_mutex, calls, oft>>

\* of_overlay_apply has returned 0: of_overlay_create puts the overlay on
\* the list and drops ov_lock
ParApplied(t) ==
    /\ ~ub
    /\ thr[t].pc = "apply"
    /\ thr[t].i > Len(thr[t].tab)
    /\ thr' = [thr EXCEPT ![t].pc = "applied"]
    /\ IF thr[t].via = "create"
       THEN \E id \in {idr_alloc(ov_idr)} :
               /\ ov_list' = Append(ov_list, id)
               /\ ov_idr' = idr_insert(ov_idr, id,
                                [id |-> id, count |-> Len(thr[t].tab),
                                 ovinfo_tab |-> thr[t].tab])
               /\ ov_lock' = 0
       ELSE UNCHANGED <<ov_list, ov_idr, ov_lock>>
    /\ last' = Called("applied", thr[t].o, t, "OK")
    /\ events' = <<>>
    /\ invoked' = <<>>
    /\ hist' = "off"
    /\ UNCHANGED <<node, prop, of_allnodes, of_reconfig_chain, of_mutex, ub,
                   calls, oft>>

NextPar ==
    \/ \E t \in Threads, o \in ParOverlays, via \in Entries :
          ParBuild(t, o, via)
    \/ \E t \in Threads : ParApplyPair(t)
    \/ \E t \in Threads : ParApplied(t)
    \/ \E cb \in Callbacks : Register(cb)
    \/ \E cb \in Callbacks : Unregister(cb)

SpecPar == Init /\ [][NextPar]_vars

\* some but not all ovinfos of the overlay of thread t have been applied
PartlyApplied(t) ==
    /\ thr[t].pc = "apply"
    /\ 1 < thr[t].i
    /\ thr[t].i <= Len(thr[t].tab)

\* ------------------------------------------------------------------
\* C8. Two threads applying overlays are serialized: in no reachable
\* state are the overlays of both threads partly applied.
\* ------------------------------------------------------------------
C8_AppliesSerialized ==
    \A t, u \in Threads : t # u => ~(PartlyApplied(t) /\ PartlyApplied(u))

-----------------------------------------------------------------------------
(* Two threads running transactions (transaction.c).  of_transaction_start *)
(* takes of_mutex; of_transaction_apply drops it before its loop, and each *)
(* __of_transaction_entry_apply takes and drops it around its primitive.   *)
(* One step of a thread is one call of the API or one turn of the loop of  *)
(* of_transaction_apply.  thr[t].tab is the te_list of the thread.         *)

ParEdits == {"add-k", "add-status", "rm-compat"}

\* of_transaction_init and of_transaction_start
ParTxnStart(t) ==
    /\ ~ub
    /\ thr[t].pc = "idle"
    /\ of_mutex = 0
    /\ of_mutex' = t
    /\ thr' = [thr EXCEPT ![t].pc = "started"]
    /\ last' = Called("txn_start", "", t, "OK")
    /\ events' = <<>>
    /\ invoked' = <<>>
    /\ UNCHANGED <<node, prop, of_allnodes, of_reconfig_chain, ov_list,
                   ov_idr, ov_lock, ub, calls, hist, oft>>

\* of_transaction_action on the objects the caller has built
ParTxnAction(t, e) ==
    /\ ~ub
    /\ thr[t].pc = "started"
    /\ Len(thr[t].tab) < MaxEntries
    /\ \E kO \in {EditObjects(Work(0, "intact"), thr[t].tab, e)} :
       /\ ~kO.full
       /\ kO.ret = "OK"
       /\ kO.ptr # NULL
       /\ Edit(e).action = "REMOVE_PROPERTY" => kO.tab[1] # NULL
       /\ \E k \in {ActionOn(kO, thr[t].tab, Edit(e).action)} :
          /\ k.ret = "OK"
          /\ Commit(k)
          /\ thr' = [thr EXCEPT ![t].tab = k.tab]
    /\ last' = Called("txn_action", e, t, "OK")
    /\ UNCHANGED <<of_reconfig_chain, ov_list, ov_idr, ov_lock, of_mutex,
                   calls, hist, oft>>

\* of_transaction_apply(oft, 0) up to its loop: "drop the global lock here"
ParTxnApply(t) ==
    /\ ~ub
    /\ thr[t].pc = "started"
    /\ thr[t].tab # <<>>
    /\ of_mutex' = 0
    /\ thr' = [thr EXCEPT ![t].pc = "applying", ![t].i = 1]
    /\ last' = Called("txn_apply", "", t, "OK")
    /\ events' = <<>>
    /\ invoked' = <<>>
    /\ UNCHANGED <<node, prop, of_allnodes, of_reconfig_chain, ov_list,
                   ov_idr, ov_lock, ub, calls, hist, oft>>

\* one turn of the loop of of_transaction_apply; the entry takes of_mutex
\* for its primitive, and so do the entries of the rollback
ParTxnEntry(t) ==
    /\ ~ub
    /\ thr[t].pc = "applying"
    /\ of_mutex = 0
    /\ \E k \in {__of_transaction_entry_apply(Work(0, "intact"),
                                              thr[t].tab[thr[t].i])} :
       IF k.ret # "OK"
       THEN /\ Commit(Ret(RevertEntriesDown(k, thr[t].tab, thr[t].i - 1),
                          k.ret))
            /\ thr' = [thr EXCEPT ![t].pc = "failed"]
            /\ last' = Called("txn_entry", "", t, k.ret)
       ELSE /\ Commit(k)
            /\ thr' = [thr EXCEPT
                         ![t].i = @ + 1,
                         ![t].pc = IF thr[t].i = Len(thr[t].tab)
                                   THEN "applied" ELSE "applying"]
            /\ last' = Called("txn_entry", "", t, "OK")
    /\ UNCHANGED <<of_reconfig_chain, ov_list, ov_idr, ov_lock, of_mutex,
                   calls, hist, oft>>

NextTxnPar ==
    \/ \E t \in Threads : ParTxnStart(t)
    \/ \E t \in Threads, e \in ParEdits : ParTxnAction(t, e)
    \/ \E t \in Threads : ParTxnApply(t)
    \/ \E t \in Threads : ParTxnEntry(t)
    \/ \E cb \in Callbacks : Register(cb)
    \/ \E cb \in Callbacks : Unregister(cb)

SpecTxnPar == Init /\ [][NextTxnPar]_vars

\* some but not all entries of the transaction of thread t are applied
PartlyCommitted(t) ==
    /\ thr[t].pc = "applying"
    /\ 1 < thr[t].i
    /\ thr[t].i <= Len(thr[t].tab)

\* ------------------------------------------------------------------
\* C9. Transactions are serialized from of_transaction_start through
\* the end of of_transaction_apply: while some but not all entries of
\* the transaction of a thread are applied, no other thread changes
\* the live tree.
\* ------------------------------------------------------------------
C9_TransactionsSerialized ==
    [][\A t \in Threads :
          PartlyCommitted(t)
              => \/ last'.id = t
                 \/ LiveTree(node', prop') = LiveTree(node, prop)]_vars

-----------------------------------------------------------------------------
(* Properties of one transaction                                           *)

\* the linked nodes with their live property lists, child lists and flags
FlagTree(nd, pr) ==
    {[full_name |-> nd[n].full_name,
      properties |-> PropList(pr, nd[n].properties),
      child |-> [i \in 1..Len(nd[n].child) |-> nd[nd[n].child[i]].name],
      detached |-> nd[n].detached,
      dynamic |-> nd[n].dynamic]
     : n \in Subtree(nd, N_SLASH)}

\* an entry is applicable when the tree it is applied to has what the entry
\* names: a property to remove or update, no property of the name to add, an
\* attached node to detach, a detached node to attach.  names is the set of
\* the (node, property name) pairs of the tree and att its attached nodes
EntryApplicable(pr, te, names, att) ==
    CASE te.action = "ADD_PROPERTY" ->
            te.np \in att /\ <<te.np, pr[te.prop].name>> \notin names
      [] te.action \in {"REMOVE_PROPERTY", "UPDATE_PROPERTY"} ->
            te.np \in att /\ <<te.np, pr[te.prop].name>> \in names
      [] te.action = "ATTACH_NODE" -> te.np \notin att
      [] OTHER -> te.np \in att

NamesAfter(pr, te, names) ==
    CASE te.action = "ADD_PROPERTY" -> names \cup {<<te.np, pr[te.prop].name>>}
      [] te.action = "REMOVE_PROPERTY" ->
            names \ {<<te.np, pr[te.prop].name>>}
      [] OTHER -> names

AttachedAfter(te, att) ==
    CASE te.action = "ATTACH_NODE" -> att \cup {te.np}
      [] te.action = "DETACH_NODE" -> att \ {te.np}
      [] OTHER -> att

RECURSIVE EntriesApplicable(_, _, _, _)
EntriesApplicable(pr, tes, names, att) ==
    \/ tes = <<>>
    \/ /\ EntryApplicable(pr, Head(tes), names, att)
       /\ EntriesApplicable(pr, Tail(tes), NamesAfter(pr, Head(tes), names),
                            AttachedAfter(Head(tes), att))

InitNames ==
    UNION {{<<n, InitProp[p].name>> : p \in Range(InitNode[n].properties)}
           : n \in Subtree(InitNode, N_SLASH)}

\* every entry of the transaction in hand is applicable to the tree of Init
\* as the entries before it leave it
AllApplicable ==
    EntriesApplicable(prop, oft.te_list, InitNames,
                      Subtree(InitNode, N_SLASH))

\* the first transaction has just been applied without force and with no
\* error, so every entry of it has been applied
JustApplied ==
    /\ calls = 1
    /\ AllApplicable
    /\ oft.phase = "applied"
    /\ last = Called("txn_apply", "", -1, "OK")

RevertedClean ==
    /\ last'.op = "txn_revert"
    /\ last'.o = ""
    /\ last'.ret = "OK"

\* ------------------------------------------------------------------
\* C11. A successful of_transaction_apply followed by a successful
\* of_transaction_revert leaves every node's live property list, child
\* list and flags as they were before the apply.
\* ------------------------------------------------------------------
C11_ApplyRevertRoundTrip ==
    [][(JustApplied /\ RevertedClean)
        => /\ ~ub'
           /\ FlagTree(node', prop') = FlagTree(InitNode, InitProp)]_vars

-----------------------------------------------------------------------------
(* The order of the entries of a journal                                   *)

TreeActions == PropertyActions \cup {"ATTACH_NODE", "DETACH_NODE"}

\* the tree-change notifications among the notifications of a call
TreeEvents(ev) == SelectSeq(ev, LAMBDA e : e.kind \in TreeActions)

InverseAction(action) ==
    CASE action = "ADD_PROPERTY" -> "REMOVE_PROPERTY"
      [] action = "REMOVE_PROPERTY" -> "ADD_PROPERTY"
      [] action = "ATTACH_NODE" -> "DETACH_NODE"
      [] action = "DETACH_NODE" -> "ATTACH_NODE"
      [] OTHER -> action

\* the notification that goes with applying entry te, and with reverting it
AppliedNote(te) ==
    [kind |-> te.action, np |-> te.np,
     prop |-> IF te.action \in PropertyActions THEN te.prop ELSE NULL]

RevertedNote(te) ==
    [kind |-> InverseAction(te.action), np |-> te.np,
     prop |-> CASE te.action = "UPDATE_PROPERTY" -> te.old_prop
                [] te.action \in PropertyActions -> te.prop
                [] OTHER -> NULL]

AppliedNotes(tes) == [i \in 1..Len(tes) |-> AppliedNote(tes[i])]
RevertedNotes(tes) == Reverse([i \in 1..Len(tes) |-> RevertedNote(tes[i])])

\* s is t with some elements left out (a property change of a node that is
\* not attached is not notified)
RECURSIVE IsSubSeq(_, _)
IsSubSeq(s, t) ==
    \/ s = <<>>
    \/ /\ t # <<>>
       /\ \/ Head(s) = Head(t) /\ IsSubSeq(Tail(s), Tail(t))
          \/ IsSubSeq(s, Tail(t))

\* the journal of an overlay: the log entries of its ovinfos, in the order
\* of the ovinfo array
RECURSIVE Journal(_)
Journal(tab) ==
    IF tab = <<>> THEN <<>> ELSE Head(tab).le_list \o Journal(Tail(tab))

\* the node changes are always notified
NodeNotes(s) ==
    SelectSeq(s, LAMBDA e : e.kind \in {"ATTACH_NODE", "DETACH_NODE"})

\* the tree-change notifications ev are notifications of notes, in the
\* order of notes, and none of a node change is missing when the call has
\* run to its end
InOrder(ev, notes, ended) ==
    /\ IsSubSeq(TreeEvents(ev), notes)
    /\ ended => NodeNotes(TreeEvents(ev)) = NodeNotes(notes)

\* the call has returned 0
Returned(op) == last'.op = op /\ last'.ret = "OK"

\* the call has returned 0 and has not run into undefined behaviour
ReturnedSound(op) == Returned(op) /\ ~ub'

\* ------------------------------------------------------------------
\* C12. The entries of a transaction, and of the journal of an overlay,
\* are applied in the order they were recorded in and reverted in the
\* reverse of that order; the tree-change notifications of the call
\* come in that same order.
\* ------------------------------------------------------------------
C12_JournalOrder ==
    [][/\ Returned("txn_apply")
            => InOrder(events', AppliedNotes(oft.te_list), ~ub')
       /\ Returned("txn_revert")
            => InOrder(events', RevertedNotes(oft.te_list), ~ub')
       /\ Returned("create")
            => InOrder(events',
                       AppliedNotes(Journal(ov_idr'[last'.id].ovinfo_tab)),
                       ~ub')
       /\ Returned("destroy")
            => InOrder(events',
                       RevertedNotes(Journal(ov_idr[last'.id].ovinfo_tab)),
                       ~ub')]_vars

\* the calls of one caller that uses overlays and a transaction
JournalOverlays == {"Mixed", "Two"}
JournalEdits == {"add-k", "upd-status", "detach-a"}

NextJournal ==
    \/ \E o \in JournalOverlays, u \in Reuse : Create(o, 0, u)
    \/ \E id \in 0..MaxId, u \in Reuse : Destroy(id, u)
    \/ TxnStart
    \/ \E e \in JournalEdits : TxnAction(e, 0)
    \/ TxnApply(FALSE)
    \/ \E force \in BOOLEAN : TxnRevert(force)

SpecJournal == Init /\ [][NextJournal]_vars

\* a transaction of two entries has been applied and reverted, and both
\* entries were notified
C12_Witness ==
    /\ last.op = "txn_revert"
    /\ last.ret = "OK"
    /\ ~ub
    /\ Len(TreeEvents(events)) = 2
    /\ TreeEvents(events)[1].kind # TreeEvents(events)[2].kind

-----------------------------------------------------------------------------
(* The staged view of a transaction                                        *)

\* the names of the properties there are
PropNames == {prop[p].name : p \in 1..Len(prop)}

\* the nodes that are allocated
LiveNodes == {n \in 1..Len(node) : node[n].mem = "ok"}

\* of_transaction_apply without force has applied every entry
Committed == last'.op = "txn_apply" /\ last'.o = "" /\ last'.ret = "OK"

\* ------------------------------------------------------------------
\* C13. of_transaction_find_property on a transaction that is not yet
\* applied returns, for every node and name, the property that
\* of_find_property returns on the live tree once the transaction is
\* committed: the property of the newest add or update entry on that
\* node and name, none when that entry is a removal, the live property
\* when there is no entry.
\* ------------------------------------------------------------------
C13_StagedLookupIsCommitted ==
    [][Committed
        => \A n \in LiveNodes, name \in PropNames :
              of_transaction_find_property(Work(0, "intact"), oft.te_list, n,
                                           name)
                = FindByName(prop', node'[n].properties, name)]_vars

\* a transaction with a removal and an update has been committed
C13_Witness ==
    /\ last = Called("txn_apply", "", -1, "OK")
    /\ ~ub
    /\ \E i, j \in 1..Len(oft.te_list) :
          /\ oft.te_list[i].action = "REMOVE_PROPERTY"
          /\ oft.te_list[j].action = "UPDATE_PROPERTY"

\* ------------------------------------------------------------------
\* C14. Nothing staged is visible before the commit: of_transaction_action
\* and of_transaction_abort leave the live tree (property lists, dead
\* property lists, child lists, flags) as it is and notify nobody, and
\* of_transaction_abort leaves the journal empty.
\* ------------------------------------------------------------------
C14_StagedIsInvisible ==
    [][(last'.op \in {"txn_action", "txn_abort"})
        => /\ ~ub'
           /\ FullTree(node', prop') = FullTree(node, prop)
           /\ FlagTree(node', prop') = FlagTree(node, prop)
           /\ of_allnodes' = of_allnodes
           /\ events' = <<>>
           /\ last'.op = "txn_abort" => oft'.te_list = <<>>]_vars

\* a transaction has been aborted after a property was built and staged
\* for it
C14_Witness ==
    /\ last = Called("txn_abort", "", -1, "OK")
    /\ oft.te_list = <<>>
    /\ \E p \in Props : prop[p].mem = "ok" /\ InitProp[p].mem # "ok"

\* the calls of a caller that stages, commits and takes back transactions
\* with no notifier registered
CommitEdits == {"add-k", "rm-compat", "upd-status", "upd-missing", "detach-a"}

NextCommit ==
    \/ TxnStart
    \/ \E e \in CommitEdits, f \in 0..MaxTxnFail : TxnAction(e, f)
    \/ TxnAbort
    \/ \E force \in BOOLEAN : TxnApply(force)
    \/ \E force \in BOOLEAN : TxnRevert(force)
    \/ TxnDestroy

SpecCommit == Init /\ [][NextCommit]_vars

-----------------------------------------------------------------------------
(* Device state                                                            *)

\* "has a non-empty compatible and (no status or status okay / ok)" for a
\* node of the tree; a node that is not in the tree has no device
Present(nd, pr, n) ==
    /\ n \in Subtree(nd, N_SLASH)
    /\ FindByName(pr, nd[n].properties, "compatible") # NULL
    /\ pr[FindByName(pr, nd[n].properties, "compatible")].value # ""
    /\ \/ FindByName(pr, nd[n].properties, "status") = NULL
       \/ IsOkay(pr[FindByName(pr, nd[n].properties, "status")].value)

DeviceActions == {"DYNAMIC_CREATE_DEV", "DYNAMIC_DESTROY_DEV"}

\* the device notifications among the notifications of a call
DeviceEvents(ev) == SelectSeq(ev, LAMBDA e : e.kind \in DeviceActions)

\* the device notifications for node n
DeviceEventsOf(ev, n) ==
    SelectSeq(ev, LAMBDA e : e.kind \in DeviceActions /\ e.np = n)

\* the state the last device notification for n leaves its device in
NotifiedState(ev, n) ==
    DeviceEventsOf(ev, n)[Len(DeviceEventsOf(ev, n))].kind
        = "DYNAMIC_CREATE_DEV"

\* the device entries of all ovinfos of overlay ov
AllDeviceEntries(ov) ==
    UNION {Range(ov.ovinfo_tab[i].de_list) : i \in 1..Len(ov.ovinfo_tab)}

\* ------------------------------------------------------------------
\* C15. After a successful apply the state the engine has worked out for
\* the device of a node it changed is "has a non-empty compatible and
\* (no status or status okay / ok)" on the tree after the apply: for
\* every device entry of an overlay's ledger, and for every node a
\* transaction has sent a device notification for.
\* ------------------------------------------------------------------
C15_NewStateIsPresence ==
    [][/\ ReturnedSound("create")
            => \A de \in AllDeviceEntries(ov_idr'[last'.id]) :
                  de.state = Present(node', prop', de.np)
       /\ (ReturnedSound("txn_apply") /\ last'.o = "")
            => \A n \in {e.np : e \in Range(DeviceEvents(events'))} :
                  NotifiedState(events', n) = Present(node', prop', n)]_vars

\* the device notifications a call owes node n, whose device was there
\* (was) or not before the call and is there (is) or not after it
OneNotification(ev, n, was, is) ==
    IF was = is THEN DeviceEventsOf(ev, n) = <<>>
    ELSE /\ Len(DeviceEventsOf(ev, n)) = 1
         /\ NotifiedState(ev, n) = is

\* ------------------------------------------------------------------
\* C16. A successful overlay apply sends exactly one device notification
\* for each node whose device state has flipped, create when the device
\* has become present and destroy when it has become absent, and none
\* for a node whose state has not flipped.
\* ------------------------------------------------------------------
C16_OneNotificationPerFlip ==
    [][ReturnedSound("create")
        => \A n \in Nodes :
              OneNotification(events', n, Present(node, prop, n),
                              Present(node', prop', n))]_vars

\* the device notification that takes notification e back
Opposite(e) ==
    [e EXCEPT !.kind = IF e.kind = "DYNAMIC_CREATE_DEV"
                       THEN "DYNAMIC_DESTROY_DEV" ELSE "DYNAMIC_CREATE_DEV"]

\* an overlay has been applied by the call before, and the call in hand
\* has reverted it
AppliedThenReverted ==
    /\ last.op = "create"
    /\ last.ret = "OK"
    /\ ~ub
    /\ last'.op = "destroy"
    /\ last'.id = last.id
    /\ last'.ret = "OK"

\* ------------------------------------------------------------------
\* C17. The revert of a successfully applied overlay sends, for each node
\* that got a device notification on the apply, exactly one notification,
\* the opposite one, and none for any other node.
\* ------------------------------------------------------------------
C17_RevertTakesDevicesBack ==
    [][AppliedThenReverted
        => \A n \in Nodes :
              /\ Len(DeviceEventsOf(events', n))
                     = Len(DeviceEventsOf(events, n))
              /\ \A i \in 1..Len(DeviceEventsOf(events, n)) :
                    DeviceEventsOf(events', n)[i]
                        = Opposite(DeviceEventsOf(events, n)[i])]_vars

\* an overlay that took a device away has been reverted
C17_Witness ==
    /\ last.op = "destroy"
    /\ last.ret = "OK"
    /\ ~ub
    /\ \E n \in Nodes :
          /\ Len(DeviceEventsOf(events, n)) = 1
          /\ NotifiedState(events, n)
          /\ Present(node, prop, n)

-----------------------------------------------------------------------------
(* The removal of all overlays                                             *)

\* the notifications of the reverts of the overlays on list, the newest
\* overlay first
RECURSIVE RevertAllNotes(_, _)
RevertAllNotes(list, idr) ==
    IF list = <<>> THEN <<>>
    ELSE RevertedNotes(Journal(idr[list[Len(list)]].ovinfo_tab))
             \o RevertAllNotes(SubSeq(list, 1, Len(list) - 1), idr)

\* every overlay is safe to remove at the time the walk of
\* of_overlay_destroy_all comes to it
RECURSIVE EachTopmost(_, _, _)
EachTopmost(k, list, idr) ==
    \/ list = <<>>
    \/ /\ overlay_removal_is_ok(k.node, list, idr, list[Len(list)])
       /\ EachTopmost(RemoveOverlay(k, list[Len(list)], list, idr).k,
                      SubSeq(list, 1, Len(list) - 1),
                      idr_remove(idr, list[Len(list)]))

\* ------------------------------------------------------------------
\* C18. of_overlay_destroy_all reverts the registered overlays from the
\* newest to the oldest, each of them safe to remove when its turn
\* comes, and ends with the registry and the id space empty.
\* ------------------------------------------------------------------
C18_DestroyAllNewestFirst ==
    [][(last'.op = "destroy_all")
        => /\ last'.ret = "OK"
           /\ ov_list' = <<>>
           /\ DOMAIN ov_idr' = {}
           /\ EachTopmost(Work(0, "intact"), ov_list, ov_idr)
           /\ InOrder(events', RevertAllNotes(ov_list, ov_idr), ~ub')]_vars

\* two overlays have been removed by one of_overlay_destroy_all: one that
\* had attached a node and one that had added a property to /root
C18_Witness ==
    /\ last.op = "destroy_all"
    /\ ~ub
    /\ ov_list = <<>>
    /\ \E i, j \in 1..Len(events) :
          /\ events[i].kind = "DETACH_NODE"
          /\ events[j].kind = "REMOVE_PROPERTY"
          /\ events[j].np = N_ROOT
          /\ prop[events[j].prop].name = "extra"

-----------------------------------------------------------------------------
(* Fragments on what the target has and has not                            *)

FragmentOverlays == {"Missing", "IntoA", "A", "S1"}

NextFragment ==
    \/ \E o \in FragmentOverlays, f \in FailPoints, u \in Reuse :
          Create(o, f, u)
    \/ \E id \in 0..MaxId, u \in Reuse : Destroy(id, u)

SpecFragment == Init /\ [][NextFragment]_vars

\* ------------------------------------------------------------------
\* C19. A fragment property "-name" whose name the target has no
\* property of is a no-op: the apply fails on no ground but a failed
\* allocation of the overlay itself, records no journal entry and no
\* device entry, notifies nobody and leaves the tree as it is.
\* ------------------------------------------------------------------
C19_MissingRemovalIsNoOp ==
    [][(last'.op = "create" /\ last'.o = "Missing")
        => /\ ~ub'
           /\ last'.ret \in {"OK", "ENOMEM"}
           /\ FullTree(node', prop') = FullTree(node, prop)
           /\ FlagTree(node', prop') = FlagTree(node, prop)
           /\ events' = <<>>
           /\ last'.ret = "OK"
                 => /\ AllLogEntries(ov_idr'[last'.id]) = {}
                    /\ AllDeviceEntries(ov_idr'[last'.id]) = {}]_vars

\* the overlay with the removal of a missing property is registered
C19_Witness ==
    /\ last = Called("create", "Missing", last.id, "OK")
    /\ last.id \in DOMAIN ov_idr
    /\ ov_idr[last.id].ovinfo_tab[1].target = N_ROOT
    /\ ov_idr[last.id].ovinfo_tab[1].overlay = "-missing"

\* the child of /root of the name "a", NULL when there is none
ExistingA == ChildByName(node, node[N_ROOT].child, "a")

\* ------------------------------------------------------------------
\* C20. A fragment child that is no removal and has the name of a child
\* the target has already: the apply does not fail on it, records no
\* attach entry and makes no node, and applies the contents of the
\* fragment child to the existing child.
\* ------------------------------------------------------------------
C20_ExistingChildIsWalked ==
    [][(last'.op = "create" /\ last'.o = "IntoA" /\ ExistingA # NULL)
        => /\ ~ub'
           /\ last'.ret \in {"OK", "ENOMEM"}
           /\ node'[N_ROOT].child = node[N_ROOT].child
           /\ last'.ret = "OK"
                 => /\ AllLogEntries(ov_idr'[last'.id]) # {}
                    /\ \A le \in AllLogEntries(ov_idr'[last'.id]) :
                          /\ le.action \in {"ADD_PROPERTY", "UPDATE_PROPERTY"}
                          /\ le.np = ExistingA
                    /\ StatusOf(node', prop', ExistingA) = "disabled"]_vars

\* the fragment with the child "a" has been applied to /root, which had
\* the child already
C20_Witness ==
    /\ last = Called("create", "IntoA", last.id, "OK")
    /\ ~ub
    /\ node[N_ROOT].child = <<N_A>>
    /\ StatusOf(node, prop, N_A) = "disabled"

\* ------------------------------------------------------------------
\* Transaction calls made out of their state.  transaction.c keeps no
\* state of the transaction (enum of_transaction_state of of.h is never
\* read or written): each call does what it does in its legal state.
\* ------------------------------------------------------------------

\* mutex_unlock(&of_mutex) by a caller that does not hold it is undefined
UnlockOutcomes(k) ==
    IF of_mutex = 1 THEN {k} ELSE {k, [k EXCEPT !.ub = TRUE]}

MisuseEdits == {"add-k", "rm-compat", "detach-a"}

\* of_transaction_action on a transaction that was not started
TxnActionUnstarted(e) ==
    /\ ~ub
    /\ calls < MaxCalls
    /\ calls' = calls + 1
    /\ oft.phase = "idle"
    /\ Len(oft.te_list) < MaxEntries
    /\ \E kO \in {EditObjects(Work(0, "intact"), oft.te_list, e)} :
       /\ ~kO.full
       /\ kO.ret = "OK" /\ kO.ptr # NULL
       /\ Edit(e).action = "REMOVE_PROPERTY" => kO.tab[1] # NULL
       /\ \E k \in {ActionOn(kO, oft.te_list, Edit(e).action)} :
          /\ k.ret = "OK"
          /\ Commit(k)
          /\ oft' = [oft EXCEPT !.te_list = k.tab]
          /\ last' = Called("txn_action", e, -1, k.ret)
    /\ UNCHANGED <<of_reconfig_chain, ov_list, ov_idr, ov_lock, of_mutex,
                   hist, thr>>

\* of_transaction_apply without of_transaction_start, or a second time
TxnApplyUnstarted(force) ==
    /\ ~ub
    /\ calls < MaxCalls
    /\ calls' = calls + 1
    /\ oft.phase \in {"idle", "applied"}
    /\ \E k \in {of_transaction_apply(Work(0, "intact"), oft.te_list, force)} :
       \E ku \in UnlockOutcomes(k) :
          /\ of_mutex' = 0
          /\ Commit(ku)
          /\ oft' = [oft EXCEPT !.phase = IF k.ret = "OK" THEN "applied"
                                          ELSE "failed"]
          /\ last' = Called("txn_apply", Force(force), -1, k.ret)
          /\ UNCHANGED <<of_reconfig_chain, ov_list, ov_idr, ov_lock, hist,
                         thr>>

\* of_transaction_revert of a transaction that was never applied
TxnRevertUnapplied(force) ==
    /\ ~ub
    /\ calls < MaxCalls
    /\ calls' = calls + 1
    /\ oft.phase \in {"idle", "started"}
    /\ \E k \in {of_transaction_revert(
                    Work(0, "intact"), oft.te_list, force)} :
       /\ Commit(k)
       /\ oft' = [oft EXCEPT !.te_list = k.tab]
       /\ last' = Called("txn_revert", Force(force), -1, k.ret)
       /\ UNCHANGED <<of_reconfig_chain, ov_list, ov_idr, ov_lock, of_mutex,
                      hist, thr>>

\* of_transaction_abort of a transaction that is not in progress
TxnAbortUnstarted ==
    /\ ~ub
    /\ calls < MaxCalls
    /\ calls' = calls + 1
    /\ oft.phase \in {"idle", "applied"}
    /\ \E k \in {of_transaction_destroy(Work(0, "intact"), oft.te_list)} :
       \E ku \in UnlockOutcomes(k) :
          /\ of_mutex' = 0
          /\ Commit(ku)
          /\ oft' = [phase |-> "idle", te_list |-> k.tab]
          /\ last' = Called("txn_abort", "", -1, "OK")
          /\ UNCHANGED <<of_reconfig_chain, ov_list, ov_idr, ov_lock, hist,
                         thr>>

NextMisuse ==
    \/ TxnStart
    \/ \E e \in MisuseEdits : TxnAction(e, 0)
    \/ TxnAbort
    \/ TxnApply(FALSE)
    \/ \E force \in BOOLEAN : TxnRevert(force)
    \/ TxnDestroy
    \/ \E e \in MisuseEdits : TxnActionUnstarted(e)
    \/ \E force \in BOOLEAN : TxnApplyUnstarted(force)
    \/ \E force \in BOOLEAN : TxnRevertUnapplied(force)
    \/ TxnAbortUnstarted

SpecMisuse == Init /\ [][NextMisuse]_vars

\* the states in which the transaction operation op is legal
LegalPhases(op) ==
    CASE op = "txn_action" -> {"started"}
      [] op = "txn_abort" -> {"started"}
      [] op = "txn_apply" -> {"started"}
      [] op = "txn_revert" -> {"applied", "unreverted"}
      [] OTHER -> {"idle", "started", "applied", "failed", "unreverted"}

OutOfState == oft.phase \notin LegalPhases(last'.op) /\ ~ub'

\* ------------------------------------------------------------------
\* C21. A transaction operation invoked outside its legal state (record,
\* abort and apply while not in progress, revert while not applied) is
\* rejected with EINVAL and changes neither the tree, the journal nor
\* the ownership of of_mutex.
\* ------------------------------------------------------------------
C21_OutOfStateIsRejected ==
    [][OutOfState =>
          /\ last'.ret = "EINVAL"
          /\ FlagTree(node', prop') = FlagTree(node, prop)
          /\ oft'.te_list = oft.te_list
          /\ of_mutex' = of_mutex]_vars

\* ------------------------------------------------------------------
\* Overlays with allocation failures next to raw property edits
\* ------------------------------------------------------------------
NameOverlays == {"S1", "Mixed"}
NameEdits == {"add-status", "rm-status"}

NextNames ==
    \/ \E o \in NameOverlays, f \in FailPoints, u \in Reuse : Create(o, f, u)
    \/ \E id \in 0..MaxId, u \in Reuse : Destroy(id, u)
    \/ TxnStart
    \/ \E e \in NameEdits : TxnAction(e, 0)
    \/ TxnApply(FALSE)
    \/ TxnRevert(FALSE)
    \/ TxnDestroy

SpecNames == Init /\ [][NextNames]_vars

\* the names on the live property list of node n, in list order
LiveNames(nd, pr, n) ==
    [i \in 1..Len(nd[n].properties) |-> pr[nd[n].properties[i]].name]

DistinctNames(nd, pr, n) ==
    \A i, j \in 1..Len(nd[n].properties) :
        i # j => LiveNames(nd, pr, n)[i] # LiveNames(nd, pr, n)[j]

\* the journal starts with the addition of a property whose name is live
AddsLiveName ==
    /\ oft.te_list # <<>>
    /\ oft.te_list[1].action = "ADD_PROPERTY"
    /\ prop[oft.te_list[1].prop].name
           \in Range(LiveNames(node, prop, oft.te_list[1].np))

\* ------------------------------------------------------------------
\* C22. In every reachable state the names on the live property list of
\* a node are pairwise distinct, and the addition of a property whose
\* name is live on the node fails with EEXIST and leaves the list as it
\* was.
\* ------------------------------------------------------------------
C22_LiveNamesDistinct ==
    /\ [](\A n \in LiveNodes : DistinctNames(node, prop, n))
    /\ [][(AddsLiveName /\ last'.op = "txn_apply" /\ last'.o = "")
            => /\ last'.ret = "EEXIST"
               /\ node'[oft.te_list[1].np].properties
                      = node[oft.te_list[1].np].properties]_vars

C22_Witness ==
    /\ AddsLiveName
    /\ last.op = "txn_apply"
    /\ last.ret = "EEXIST"
    /\ oft.phase = "failed"
    /\ Len(ov_list) > 0
    /\ \A n \in LiveNodes : DistinctNames(node, prop, n)

\* how many times x stands in the list s
Times(s, x) == Cardinality({i \in 1..Len(s) : s[i] = x})

\* a node that is allocated and attached
Attached(n) == node[n].mem = "ok" /\ ~node[n].detached

\* a node of the live tree below the root: attached, and so is its parent
LiveBelowRoot(n) ==
    /\ Attached(n)
    /\ node[n].parent # NULL
    /\ Attached(node[n].parent)

ListsWellFormed ==
    /\ \A n \in 1..Len(node) :
          LiveBelowRoot(n) =>
             /\ Times(node[node[n].parent].child, n) = 1
             /\ Times(of_allnodes, n) = 1
    /\ \A n \in 1..Len(node) :
          /\ Times(of_allnodes, n) <= 1
          /\ \A m \in LiveNodes : Times(node[m].child, n) <= 1
    /\ \A n \in 1..Len(node) :
          (Times(of_allnodes, n) > 0
             \/ \E m \in LiveNodes : Times(node[m].child, n) > 0)
          => Attached(n)

\* ------------------------------------------------------------------
\* C23. In every reachable state every live node below the root stands
\* exactly once in its parent's child list and exactly once in the
\* all-nodes chain, no node stands twice in either list (the lists are
\* acyclic), and no detached node stands in either.
\* ------------------------------------------------------------------
C23_ListsWellFormed == ~ub => ListsWellFormed

\* ------------------------------------------------------------------
\* References taken and dropped by hand, next to overlays that leave
\* dead properties behind
\* ------------------------------------------------------------------
MaxRefs == 3
ReleaseOverlays == {"A", "B"}

NodeGet(n) ==
    /\ ~ub
    /\ n \in LiveNodes
    /\ node[n].refs < MaxRefs
    /\ \E k \in {of_node_get(Work(0, "intact"), n)} :
       /\ Commit(k)
       /\ last' = Called("node_get", "", n, "OK")
    /\ UNCHANGED <<of_reconfig_chain, ov_list, ov_idr, ov_lock, of_mutex,
                   calls, hist, thr, oft>>

NodePut(n, u) ==
    /\ ~ub
    /\ n \in LiveNodes
    /\ \E k \in {of_node_put(Work(0, u), n)} :
       /\ Commit(k)
       /\ last' = Called("node_put", "", n, "OK")
    /\ UNCHANGED <<of_reconfig_chain, ov_list, ov_idr, ov_lock, of_mutex,
                   calls, hist, thr, oft>>

DetachNode(n, u) ==
    /\ ~ub
    /\ n \in LiveNodes
    /\ node[n].parent # NULL
    /\ ~node[n].detached
    /\ \E k \in {of_detach_node(Work(0, u), n)} :
       /\ Commit(k)
       /\ last' = Called("detach_node", "", n, k.ret)
    /\ UNCHANGED <<of_reconfig_chain, ov_list, ov_idr, ov_lock, of_mutex,
                   calls, hist, thr, oft>>

NextRelease ==
    \/ \E o \in ReleaseOverlays : Create(o, 0, "intact")
    \/ NodeGet(N_A)
    \/ \E n \in {N_ROOT, N_A}, u \in Reuse : NodePut(n, u)
    \/ \E u \in Reuse : DetachNode(N_A, u)

SpecRelease == Init /\ [][NextRelease]_vars

\* the reference count of node n reaches zero in this step
ReachesZero(n) == node[n].refs > 0 /\ node'[n].refs = 0

\* node n is freed in this step
IsFreed(n) == node[n].mem = "ok" /\ node'[n].mem = "freed"

\* node n is freed with the properties of both its lists
FreedWithProperties(n) ==
    /\ IsFreed(n)
    /\ \A p \in Range(node[n].properties) \cup Range(node[n].deadprops) :
          prop'[p].mem = "freed"

CreatedBy(ov) ==
    {le.np : le \in {e \in AllLogEntries(ov) : e.action = "ATTACH_NODE"}}

\* of_overlay_destroy(id) of a registered overlay has returned 0
Reverted(id) ==
    /\ id \in DOMAIN ov_idr
    /\ last'.op = "destroy"
    /\ last'.id = id
    /\ last'.ret = "OK"

\* ------------------------------------------------------------------
\* C25. A node that an overlay has created is not leaked: once the
\* overlay is reverted the node's path resolves to no node, the node is
\* detached, its reference count is zero and it has been freed.
\* ------------------------------------------------------------------
C25_CreatedNodeIsFreed ==
    [][\A id \in 0..MaxId :
          Reverted(id) =>
             \A n \in CreatedBy(ov_idr[id]) :
                /\ NodeByPath(node', of_allnodes', node[n].full_name) = NULL
                /\ node'[n].detached
                /\ node'[n].refs = 0
                /\ node'[n].mem = "freed"]_vars

\* a registered callback rejects the notification e
Rejected(nd, e) ==
    \E cb \in Range(of_reconfig_chain) :
        CallbackVetoes(cb, [node |-> nd], e.kind, e.np)

\* the pre-change notification of an entry of the journal was dispatched
\* in the call and rejected
EntryVetoed ==
    \E i \in 1..Len(events') :
        /\ Rejected(node', events'[i])
        /\ \E j \in 1..Len(oft.te_list) :
              /\ oft.te_list[j].action = events'[i].kind
              /\ oft.te_list[j].np = events'[i].np
              /\ oft.te_list[j].prop = events'[i].prop

\* ------------------------------------------------------------------
\* C26. of_transaction_apply executes no primitive before the pre-change
\* notification of every entry has been accepted: when the notification
\* of an entry is rejected, no primitive of the transaction has touched
\* the tree.
\* ------------------------------------------------------------------
C26_VetoLeavesTreeUntouched ==
    [][(last'.op = "txn_apply" /\ ~ub' /\ EntryVetoed)
          => FlagTree(node', prop') = FlagTree(node, prop)]_vars

\* of_transaction_apply without force has failed at one of its entries
FailedPartWay == last'.op = "txn_apply" /\ last'.o = "" /\ last'.ret # "OK"

\* ------------------------------------------------------------------
\* C27. The device notifications (DYNAMIC_CREATE_DEV, DYNAMIC_DESTROY_DEV)
\* of a transaction are dispatched only once all its entries are
\* applied: a transaction that fails part-way has dispatched none.
\* ------------------------------------------------------------------
C27_FailedApplyNotifiesNoDevice ==
    [][(FailedPartWay /\ ~ub') => DeviceEvents(events') = <<>>]_vars

\* ------------------------------------------------------------------
\* Several observers on the chain
\* ------------------------------------------------------------------
MaxObservers == 2
Observers == {"veto_detach_node", "busy_detach_node", "veto_attach_c"}
NotifyOverlays == {"DetachA", "S4"}

\* of_reconfig_notifier_register
Subscribe(cb) ==
    /\ ~ub
    /\ Len(of_reconfig_chain) < MaxObservers
    /\ cb \notin Range(of_reconfig_chain)
    /\ of_reconfig_chain' = Append(of_reconfig_chain, cb)
    /\ last' = Called("register", cb, -1, "OK")
    /\ events' = <<>>
    /\ invoked' = <<>>
    /\ hist' = "off"
    /\ UNCHANGED <<node, prop, of_allnodes, ov_list, ov_idr, ov_lock,
                   of_mutex, ub, calls, thr, oft>>

NextNotify ==
    \/ \E cb \in Observers : Subscribe(cb)
    \/ \E cb \in Observers : Unregister(cb)
    \/ \E o \in NotifyOverlays : Create(o, 0, "intact")
    \/ \E id \in 0..MaxId : Destroy(id, "intact")
    \/ DetachNode(N_A, "intact")

SpecNotify == Init /\ [][NextNotify]_vars

\* the error of the first callback on the chain that rejects e ("OK": none)
FirstError(chain, nd, e) ==
    LET bad == {i \in 1..Len(chain) :
                   CallbackAnswer(chain[i], [node |-> nd], e.kind, e.np)
                       # "OK"}
    IN IF bad = {} THEN "OK"
       ELSE CallbackAnswer(chain[Min(bad)], [node |-> nd], e.kind, e.np)

\* a call that dispatches notifications
Dispatching == last'.op \in {"create", "destroy", "detach_node"}

ToRestore(te) ==
    IF te.action = "UPDATE_PROPERTY" THEN te.old_prop ELSE te.prop

\* of_transaction_revert is called on a journal of one entry, which removes
\* or updates a property
RevertsOneRestore ==
    /\ last'.op = "txn_revert"
    /\ Len(oft.te_list) = 1
    /\ oft.te_list[1].action \in {"REMOVE_PROPERTY", "UPDATE_PROPERTY"}

\* what the add and the update primitive answer
PrimitiveAnswers == {"OK", "EEXIST", "ENODEV"}

\* ------------------------------------------------------------------
\* C29. When a revert processes a REMOVE_PROPERTY or UPDATE_PROPERTY
\* entry, the property to restore is on the dead-property list of the
\* entry's node; were it not, the revert stops with a failure of its own
\* and does not call the add or update primitive with that property.
\* ------------------------------------------------------------------
C29_RestoredFromDeadList ==
    [][(RevertsOneRestore /\ ~ub') =>
          \/ ToRestore(oft.te_list[1])
                 \in Range(node[oft.te_list[1].np].deadprops)
          \/ /\ last'.ret \notin PrimitiveAnswers
             /\ FlagTree(node', prop') = FlagTree(node, prop)]_vars

\* how many places on the property lists of the nodes hold property p
OnLists(nd, p) ==
    Cardinality({<<n, i>> \in (1..Len(nd)) \X (1..MaxProp + 1) :
                    /\ nd[n].mem = "ok"
                    /\ i <= Len(nd[n].properties)
                    /\ nd[n].properties[i] = p})
    + Cardinality({<<n, i>> \in (1..Len(nd)) \X (1..MaxProp + 1) :
                    /\ nd[n].mem = "ok"
                    /\ i <= Len(nd[n].deadprops)
                    /\ nd[n].deadprops[i] = p})

\* ------------------------------------------------------------------
\* C30. In every reachable state each allocated property stands in at
\* most one place of the property lists - the live list or the
\* dead-property list of one node: apply and revert (a revert that
\* fails part way included) move the object from list to list and never
\* leave it on two at once.
\* ------------------------------------------------------------------
C30_OnOneList ==
    \A p \in 1..Len(prop) : prop[p].mem = "ok" => OnLists(node, p) <= 1

-----------------------------------------------------------------------------
(* The mutation lock of a transaction                                      *)

\* the transaction of thread t is in progress or being committed
InProgress(t) == thr[t].pc \in {"started", "applying"}

\* ------------------------------------------------------------------
\* C31. From of_transaction_start until of_transaction_apply has
\* finished, of_mutex stays with the thread of the transaction: while
\* the transaction of a thread is in progress or being committed, no
\* other thread acquires of_mutex.
\* ------------------------------------------------------------------
C31_LockHeldUntilApplied ==
    [][\A t, u \in Threads :
          (t # u /\ InProgress(t)) => ~(of_mutex # u /\ of_mutex' = u)]_vars

-----------------------------------------------------------------------------
(* The pairs of an overlay, one turn of the loop of of_overlay_apply at a  *)
(* time                                                                    *)

PairOverlays == {"Three", "Both"}

NextPairs ==
    \/ \E t \in Threads, o \in PairOverlays : ParBuild(t, o, "create")
    \/ \E t \in Threads : ParApplyPair(t)
    \/ \E t \in Threads : ParApplied(t)
    \/ \E cb \in Callbacks : Register(cb)
    \/ \E cb \in Callbacks : Unregister(cb)

SpecPairs == Init /\ [][NextPairs]_vars

\* the notifications ev are those of changes made and taken back, the last
\* one made taken back first
Mirrored(ev) ==
    /\ Len(ev) % 2 = 0
    /\ \A j \in 1..Len(ev) :
          /\ ev[Len(ev) + 1 - j].kind = InverseAction(ev[j].kind)
          /\ ev[Len(ev) + 1 - j].np = ev[j].np

\* the turn of the loop for ovinfo i of thread t has failed
PairFailed(t) == thr[t].pc = "apply" /\ thr'[t].pc = "failed"

\* the turn of the loop for ovinfo i of thread t has succeeded
PairApplied(t) ==
    thr[t].pc = "apply" /\ thr'[t].pc = "apply" /\ thr'[t].i = thr[t].i + 1

-----------------------------------------------------------------------------
(* Nodes an overlay creates                                                *)

NewChildOverlays == {"S3", "S4", "Nested"}

\* allocation failures up to those of the walk of a new child
MaxWalkFail == 9

NextNewChild ==
    \/ \E o \in NewChildOverlays, f \in 0..MaxWalkFail, u \in Reuse :
          Create(o, f, u)
    \/ \E id \in 0..MaxId, u \in Reuse : Destroy(id, u)

SpecNewChild == Init /\ [][NextNewChild]_vars

\* the nodes the step has allocated and not freed again
NewNodes == {n \in Nodes : node[n].mem = "none" /\ node'[n].mem = "ok"}

\* node m is node n or lies below it
Under(nd, m, n) ==
    /\ Len(nd[n].full_name) <= Len(nd[m].full_name)
    /\ SubSeq(nd[m].full_name, 1, Len(nd[n].full_name)) = nd[n].full_name

\* the journal has an Attach entry of node n, and no entry that names n or
\* a node below it stands before that entry
AttachedFirst(nd, jl, n) ==
    \E j \in 1..Len(jl) :
       /\ jl[j].action = "ATTACH_NODE"
       /\ jl[j].np = n
       /\ \A m \in 1..Len(jl) : Under(nd, jl[m].np, n) => j <= m

\* among the notifications ev, the detach of node n comes after every
\* notification that names n or a node below it
DetachedLast(nd, ev, n) ==
    \A a, b \in 1..Len(ev) :
       (ev[a].kind = "DETACH_NODE" /\ ev[a].np = n /\ Under(nd, ev[b].np, n))
           => b <= a

\* ------------------------------------------------------------------
\* C33. A node made for a fragment child the target has not is created
\* detached, with the target as its parent and the target's path plus
\* its name as its path; its Attach entry is recorded before every
\* journal entry that names the node or a node below it, and the revert
\* detaches the node only after all those entries were undone.
\* ------------------------------------------------------------------
C33_NewChildAttachedFirst ==
    [][/\ last'.op = "create"
            => \A n \in NewNodes :
                  /\ node'[n].dynamic
                  /\ node'[n].parent \in Nodes
                  /\ \/ node[node'[n].parent].mem = "ok"
                     \/ /\ node[node'[n].parent].mem = "none"
                        /\ node'[node'[n].parent].mem # "none"
                  /\ node'[n].full_name
                        = Append(node'[node'[n].parent].full_name,
                                 node'[n].name)
                  /\ IF last'.ret = "OK"
                     THEN /\ ~node'[n].detached
                          /\ n \in Range(node'[node'[n].parent].child)
                          /\ AttachedFirst(node',
                                 Journal(ov_idr'[last'.id].ovinfo_tab), n)
                     ELSE /\ node'[n].detached
                          /\ n \notin Range(node'[node'[n].parent].child)
       /\ Returned("destroy")
            => \A j \in 1..Len(Journal(ov_idr[last'.id].ovinfo_tab)) :
                  Journal(ov_idr[last'.id].ovinfo_tab)[j].action
                        = "ATTACH_NODE"
                  => DetachedLast(node, TreeEvents(events'),
                         Journal(ov_idr[last'.id].ovinfo_tab)[j].np)]_vars

\* the overlay Nested has been applied: /root/d and /root/d/b are new, and
\* the properties of b were journalled after the two Attach entries
C33_Witness ==
    /\ last.op = "create"
    /\ last.o = "Nested"
    /\ last.ret = "OK"
    /\ ~ub
    /\ Len(Journal(ov_idr[last.id].ovinfo_tab)) = 4
    /\ Journal(ov_idr[last.id].ovinfo_tab)[2].action = "ATTACH_NODE"
    /\ Journal(ov_idr[last.id].ovinfo_tab)[3].action = "ADD_PROPERTY"

-----------------------------------------------------------------------------
(* The entries a fragment's properties are journalled as                   *)

\* the properties of fragment f, and of the fragments below it, that the
\* walk copies: neither "name" nor a removal
RECURSIVE CopiedProps(_)
RECURSIVE CopiedBelow(_)
CopiedBelow(fcs) ==
    IF fcs = <<>> THEN 0
    ELSE (IF Head(fcs).dash THEN 0 ELSE CopiedProps(Head(fcs).frag))
         + CopiedBelow(Tail(fcs))

CopiedProps(f) ==
    Cardinality({j \in 1..Len(Fragment(f).props) :
                    /\ ~Fragment(f).props[j].dash
                    /\ Fragment(f).props[j].name # "name"})
    + CopiedBelow(Fragment(f).children)

\* the entries of journal jl that install a property
Installs(jl) ==
    SelectSeq(jl, LAMBDA le : le.action \in {"ADD_PROPERTY",
                                             "UPDATE_PROPERTY"})

RECURSIVE CopiedByPairs(_)
CopiedByPairs(tab) ==
    IF tab = <<>> THEN 0
    ELSE CopiedProps(Head(tab).overlay) + CopiedByPairs(Tail(tab))

\* entry le installs a fresh copy: an update that has saved the property
\* of the name that was live on the node, an add when there was none
InstallsCopy(le) ==
    /\ prop[le.prop].mem = "none"
    /\ prop'[le.prop].dynamic
    /\ prop'[le.prop].name # "name"
    /\ IF FindByName(prop, node[le.np].properties, prop'[le.prop].name)
             # NULL
       THEN /\ le.action = "UPDATE_PROPERTY"
            /\ le.old_prop = FindByName(prop, node[le.np].properties,
                                        prop'[le.prop].name)
       ELSE /\ le.action = "ADD_PROPERTY"
            /\ le.old_prop = NULL

\* ------------------------------------------------------------------
\* C34. For every fragment property that is neither "name" nor a
\* removal the walk records exactly one entry, for a fresh copy of it:
\* an update that has saved the target's live property of that name
\* when there is one, an add otherwise; the apply never fails with
\* EEXIST.
\* ------------------------------------------------------------------
C34_CopyIsAddedOrUpdated ==
    [][/\ last'.op = "create" => last'.ret # "EEXIST"
       /\ Returned("create")
            => /\ Len(Installs(Journal(ov_idr'[last'.id].ovinfo_tab)))
                     = CopiedByPairs(ov_idr'[last'.id].ovinfo_tab)
               /\ \A j \in 1..Len(Installs(Journal(
                                      ov_idr'[last'.id].ovinfo_tab))) :
                     /\ InstallsCopy(Installs(Journal(
                            ov_idr'[last'.id].ovinfo_tab))[j])
                     /\ \A m \in 1..(j - 1) :
                           Installs(Journal(
                               ov_idr'[last'.id].ovinfo_tab))[m].prop
                             # Installs(Journal(
                                   ov_idr'[last'.id].ovinfo_tab))[j].prop]_vars

\* an overlay was applied on top of another one that had set the same
\* property: the entry is an update that has saved the first one's copy
C34_Witness ==
    /\ last.op = "create"
    /\ last.ret = "OK"
    /\ ~ub
    /\ \E le \in Range(Journal(ov_idr[last.id].ovinfo_tab)) :
          /\ le.action = "UPDATE_PROPERTY"
          /\ le.old_prop # NULL
          /\ prop[le.old_prop].dynamic
          /\ prop[le.old_prop].name = prop[le.prop].name

-----------------------------------------------------------------------------
(* What the observers are told when an apply fails                         *)

\* notification j of ev is the pre-change notification of entry te, and
\* every registered callback has accepted it
Accepted(ev, j, te) ==
    /\ ev[j] = AppliedNote(te)
    /\ FirstError(of_reconfig_chain, node', ev[j]) = "OK"

\* a notification after the j-th one of ev takes the change of te back
TakenBack(ev, j, te) ==
    \E m \in (j + 1)..Len(ev) :
       /\ ev[m].kind = InverseAction(te.action)
       /\ ev[m].np = te.np

\* ------------------------------------------------------------------
\* C35. When of_transaction_apply without force fails, every entry
\* whose pre-change notification was dispatched and accepted by the
\* registered observers - the entry the apply failed at included - is
\* followed by the notification of the inverse change before the apply
\* returns.
\* ------------------------------------------------------------------
C35_AcceptedIsTakenBack ==
    [][(/\ last'.op = "txn_apply"
        /\ last'.o # "force"
        /\ last'.ret # "OK"
        /\ of_reconfig_chain # <<>>
        /\ ~ub')
          => \A i \in 1..Len(oft.te_list) :
                \A j \in 1..Len(TreeEvents(events')) :
                   Accepted(TreeEvents(events'), j, oft.te_list[i])
                      => TakenBack(TreeEvents(events'), j,
                                   oft.te_list[i])]_vars

-----------------------------------------------------------------------------
(* A revert that fails: transactions applied and reverted without force,   *)
(* observers coming and going                                              *)

RevertEdits == {"add-k", "rm-compat", "detach-a"}

NextRevert ==
    \/ TxnStart
    \/ \E e \in RevertEdits : TxnAction(e, 0)
    \/ TxnApply(FALSE)
    \/ TxnRevert(FALSE)
    \/ \E cb \in Callbacks : Register(cb)
    \/ \E cb \in Callbacks : Unregister(cb)

SpecRevert == Init /\ [][NextRevert]_vars

\* of_transaction_revert without force has returned an error
RevertFailed ==
    /\ last'.op = "txn_revert"
    /\ last'.o = ""
    /\ last'.ret # "OK"

\* ------------------------------------------------------------------
\* C36. When of_transaction_revert without force fails at an entry of
\* a transaction that was applied, the entries it had reverted are
\* applied again, the error is returned, the journal is left as it was,
\* and the live tree is the tree the apply had left.
\* ------------------------------------------------------------------
C36_FailedRevertRestoresApplied ==
    [][(oft.phase = "applied" /\ RevertFailed /\ ~ub')
        => /\ oft'.te_list = oft.te_list
           /\ LooseTree(node', prop') = LooseTree(node, prop)]_vars

-----------------------------------------------------------------------------
(* Nodes freed by an apply                                                 *)

\* the nodes whose memory the step has released
FreedNodes == {n \in Nodes : node[n].mem # "freed" /\ node'[n].mem = "freed"}

\* ------------------------------------------------------------------
\* C37. An apply frees only what is detached and no longer named: a node
\* whose memory of_overlay_create releases has no reference left - none
\* of a journal entry, none of a ledger entry - and nothing of the call
\* uses the node after it was freed.
\* ------------------------------------------------------------------
C37_FreedNodeIsUnnamed ==
    [][last'.op = "create"
          => \A n \in FreedNodes : node'[n].refs = 0 /\ ~ub']_vars

-----------------------------------------------------------------------------
(* The node of a Detach entry                                              *)

\* the nodes the journal jl has Detach entries of
DetachedBy(jl) == {jl[j].np : j \in {m \in 1..Len(jl) :
                                        jl[m].action = "DETACH_NODE"}}

\* ------------------------------------------------------------------
\* C38. The node of a Detach entry of an overlay is not freed while the
\* entry has work to do: when of_overlay_destroy has reverted the
\* overlay, the node is allocated memory still, and the revert has used
\* no freed memory to attach it again.
\* ------------------------------------------------------------------
C38_DetachedNodeOutlivesRevert ==
    [][Returned("destroy")
          => \A n \in DetachedBy(Journal(ov_idr[last'.id].ovinfo_tab)) :
                node'[n].mem = "ok" /\ ~ub']_vars

-----------------------------------------------------------------------------
(* The device of a node a transaction detaches                             *)

DeviceEdits == {"detach-root", "detach-a", "add-k", "upd-status"}

NextDevice ==
    \/ TxnStart
    \/ \E e \in DeviceEdits : TxnAction(e, 0)
    \/ TxnApply(FALSE)
    \/ TxnRevert(FALSE)
    \/ TxnDestroy
    \/ \E cb \in Callbacks : Register(cb)
    \/ \E cb \in Callbacks : Unregister(cb)

SpecDevice == Init /\ [][NextDevice]_vars

\* entry i of the transaction detaches a node that has a device (a
\* compatible and a status "okay") and that no other entry names
DetachesDevice(i) ==
    /\ oft.te_list[i].action = "DETACH_NODE"
    /\ Present(InitNode, InitProp, oft.te_list[i].np)
    /\ FindByName(InitProp, InitNode[oft.te_list[i].np].properties,
                  "status") # NULL
    /\ \A j \in 1..Len(oft.te_list) :
          j # i => oft.te_list[j].np # oft.te_list[i].np

\* the device notifications ev has for node n are this one of kind
OnlyDeviceEvent(ev, n, kind) ==
    DeviceEventsOf(ev, n) = <<[kind |-> kind, np |-> n, prop |-> NULL]>>

\* ------------------------------------------------------------------
\* C39. Applying a transaction with a Detach entry of a node that has a
\* device dispatches DYNAMIC_DESTROY_DEV for the node exactly once, and
\* reverting the transaction dispatches DYNAMIC_CREATE_DEV for it
\* exactly once.
\* ------------------------------------------------------------------
C39_DetachDestroysDeviceOnce ==
    [][\A i \in 1..Len(oft.te_list) :
          DetachesDevice(i)
             => /\ (Returned("txn_apply") /\ ~ub')
                     => OnlyDeviceEvent(events', oft.te_list[i].np,
                                        "DYNAMIC_DESTROY_DEV")
                /\ (Returned("txn_revert") /\ ~ub')
                     => OnlyDeviceEvent(events', oft.te_list[i].np,
                                        "DYNAMIC_CREATE_DEV")]_vars

-----------------------------------------------------------------------------
(* The staged child lookup                                                 *)

\* the newest node entry of te_list the lookup stops at, 0 when none: the
\* parent is compared with np, the node's name with the literal "name"
RECURSIVE LastNodeEntryOn(_, _, _)
LastNodeEntryOn(nd, tes, np) ==
    IF tes = <<>> THEN 0
    ELSE LET te == tes[Len(tes)]
         IN IF te.action \in {"ATTACH_NODE", "DETACH_NODE"}
                /\ nd[te.np].parent = np
                /\ nd[te.np].name = "name"
            THEN Len(tes)
            ELSE LastNodeEntryOn(nd, SubSeq(tes, 1, Len(tes) - 1), np)

of_transaction_get_child_by_name(k, tes, np, name) ==
    LET i == LastNodeEntryOn(k.node, tes, np)
    IN IF i = 0 THEN FindChild(k, np, name)
       ELSE IF tes[i].action = "ATTACH_NODE" THEN tes[i].np
       ELSE NULL

\* the names of the nodes there are
NodeNames == {node[n].name : n \in LiveNodes}

\* ------------------------------------------------------------------
\* C40. of_transaction_get_child_by_name on a transaction that is not yet
\* applied returns, for every node and name, the child the node has
\* under that name once the transaction is committed: the node of the
\* newest attach entry with that parent and name, none when the newest
\* such entry is a detach, the live child when there is no such entry.
\* ------------------------------------------------------------------
C40_StagedChildIsCommitted ==
    [][(Committed /\ ~ub')
        => \A n \in LiveNodes, name \in NodeNames :
              of_transaction_get_child_by_name(Work(0, "intact"),
                                               oft.te_list, n, name)
                = ChildByName(node', node'[n].child, name)]_vars

====
